---------------------------- MODULE Spec2Model ----------------------------
(***************************************************************************)
(* A model of the Cycloid Machine simulator (simulator_cycloid/src):       *)
(*   - the mechanism editor of DrawingCanvas / MainWindow / config_loader  *)
(*     (specification Spec),                                               *)
(*   - the relaxation solver DrawingCanvas._propagate_constraints, one     *)
(*     pass per step (specification SpecRelax),                            *)
(*   - the path sampler calculate_path_sympy (specification SpecPath),     *)
(*   - the two solvers side by side (specification SpecSolvers),          *)
(*   - Rod.get_point_at_distance on one rod (specification SpecPoint),     *)
(*   - the three menu simulators of the controller, LCDMenuSimulator16x2,  *)
(*     CycloidMenuSimulator and LCDMenuSimulator (specification SpecMenu). *)
(*                                                                         *)
(* The path sampler works on points of the plane whose coordinates are     *)
(* floats: <<"fin", n>>, <<"nan", 0>> or <<"inf", sign>>; the canvas       *)
(* wheel turns by multiples of 90 degrees per sample.                      *)
(*                                                                         *)
(* Geometry.  Mechanisms are laid out on the line y = 0: QPointF(x, 0) is  *)
(* the integer x, in millimetres.  On that line math.hypot(v) = |v|,       *)
(* v * (L / |v|) = sgn(v) * L, and wheel points (angle 0, which the        *)
(* editor never changes) sit at center + radius.  All coordinates the      *)
(* model enumerates are multiples of 10, so that "within snap distance"    *)
(* means "at the same place" and half lengths stay integral.               *)
(*                                                                         *)
(* Optional values: None is the empty tuple, Some(x) the 1-tuple <<x>>.    *)
(* A connection reference is None or the pair <<component id, point>>.     *)
(*                                                                         *)
(* components.py in this tree declares neither Rod.fixed_length nor        *)
(* Wheel.is_canvas, which drawing_canvas.py, parameter_panel.py and        *)
(* config_writer.py read; the two fields are modelled as the data model    *)
(* of the specification describes them (RodFixedLength, WheelIsCanvas).    *)
(***************************************************************************)
EXTENDS Integers, Sequences, FiniteSets, TLC

VARIABLES
    \* ---- DrawingCanvas (editor) ----
    wheels,              \* canvas.wheels: sequence of wheel records
    rods,                \* canvas.rods: sequence of rod records
    components_by_id,    \* canvas.components_by_id: id -> "wheel" | "rod"
    next_component_id,   \* canvas._next_component_id
    canvas_wheel,        \* canvas.canvas_wheel: None or Some(wheel record)
    selected_component,  \* canvas.selected_component: None or <<kind, id>>
    ui,                  \* dragging / rod-creation state of the canvas
    last_op,             \* the handler that ran last, with what it observed
    ops_done,            \* how many user operations the session has seen
    \* ---- one _propagate_constraints call, pass by pass ----
    relax,
    \* ---- one calculate_path_sympy call, sample by sample ----
    path,
    \* ---- one menu simulator window: its fields and the last input ----
    menu

vars == <<wheels, rods, components_by_id, next_component_id, canvas_wheel,
          selected_component, ui, last_op, ops_done, relax, path,
          menu>>

-----------------------------------------------------------------------------
(* Optional values and dictionaries *)

None == <<>>

Some(x) == <<x>>

\* dict.get(k): None when the key is absent
Get(d, k) == IF k \in DOMAIN d THEN Some(d[k]) ELSE None

\* dict.update(e)
DictUpdate(d, e) ==
    [k \in (DOMAIN d) \cup (DOMAIN e) |-> IF k \in DOMAIN e THEN e[k] ELSE d[k]]

EmptyDict == [k \in {} |-> 0]

\* bool(QPointF) is "not isNull()": a point at the origin is falsy, so
\* "if target_start" is false for None and for QPointF(0, 0) alike.
Truthy(p) == p # None /\ p[1] # 0

Abs(x) == IF x < 0 THEN -x ELSE x

Sgn(x) == IF x < 0 THEN -1 ELSE IF x > 0 THEN 1 ELSE 0

Max2(a, b) == IF a >= b THEN a ELSE b

Min2(a, b) == IF a <= b THEN a ELSE b

\* math.hypot(vec.x(), vec.y()) on the line y = 0
Hypot(v) == Abs(v)

\* "dist > 1e-6", as dist * 10^6 > 1
EpsDen == 1000000

AboveEps(d) == d * EpsDen > 1

\* (cos, sin) of math.atan2(vec.y(), vec.x()) on the line: atan2(0, v) is 0
\* for v >= 0 (atan2(0, 0) = 0) and pi for v < 0
Bearing(v) == IF v < 0 THEN -1 ELSE 1

\* vec * (num / den) for den > 0; exact when den divides vec * num
ScaleVec(v, num, den) == Sgn(v) * ((Abs(v) * num) \div den)

ScaleExact(v, num, den) == (Abs(v) * num) % den = 0

-----------------------------------------------------------------------------
(* components.py: Wheel and Rod *)

\* Wheel(id, center, diameter, connection_points={}, is_canvas=False).
\* connection_points maps a point name to its radius.
NewWheel(id, center, diameter, cps, is_canvas) ==
    [id |-> id, center |-> center, diameter |-> diameter,
     connection_points |-> cps, is_canvas |-> is_canvas]

\* Rod(id, length, start_pos, end_pos) with every optional field at its default.
\* fixed is the rod's fixed_length flag (see RodFixedLength).
NewRod(id, length, start_pos, end_pos, fixed) ==
    [id |-> id, length |-> length, start_pos |-> start_pos, end_pos |-> end_pos,
     start_connection |-> None, end_connection |-> None,
     mid_point_distance |-> None, mid_point_connection |-> None,
     pen_distance_from_start |-> None, fixed_length |-> fixed]

\* rod.fixed_length, as the relaxation solver reads it
RodFixedLength(rod) == rod.fixed_length

\* Wheel.is_canvas: the flag add_canvas_wheel passes to Wheel(...)
WheelIsCanvas(wheel) == wheel.is_canvas

\* Wheel.get_connection_point_position at current_angle_deg = 0
WheelPointPosition(w, point_id) ==
    IF point_id \notin DOMAIN w.connection_points THEN None
    ELSE IF w.connection_points[point_id] < 0 THEN None
    ELSE Some(w.center + w.connection_points[point_id])

\* Rod.get_point_at_distance: start + (end - start) * (distance / length).
\* Raises ZeroDivisionError for length = 0 (GetPointRaises).
GetPointRaises(rod, distance) == rod.length = 0

GetPointAtDistance(rod, distance) ==
    rod.start_pos + ScaleVec(rod.end_pos - rod.start_pos, distance, rod.length)

RodIds(rs) == {rs[i].id : i \in DOMAIN rs}

RodById(rs, id) == rs[CHOOSE i \in DOMAIN rs : rs[i].id = id]

WheelIds(ws) == {ws[i].id : i \in DOMAIN ws}

WheelById(ws, id) == ws[CHOOSE i \in DOMAIN ws : ws[i].id = id]

-----------------------------------------------------------------------------
(* DrawingCanvas._propagate_constraints, one pass *)

\* num_passes = 500
num_passes == 500

\* max_correction_threshold_sq = (0.1 / pixels_per_mm) ** 2 = 1 / 400:
\* "c < threshold" is c * 400 < 1, "c > threshold" is c * 400 > 1
ThresholdDen == 400

\* A loop whose convergence test never succeeds
BelowThresholdNever(c) == c * ThresholdDen < 0

BelowThreshold(c) == c * ThresholdDen < 1

AboveThreshold(c) == c * ThresholdDen > 1

\* The wheel part of current_positions: every connection point whose
\* position is truthy ("if pos:").
WheelPointKeys(ws) ==
    UNION {{<<ws[i].id, p>> : p \in {q \in DOMAIN ws[i].connection_points :
                                        Truthy(WheelPointPosition(ws[i], q))}}
           : i \in DOMAIN ws}

\* current_positions at the start of a pass: wheel points, then the start
\* and end of every rod as the previous pass left them.
CurrentPositions(ws, intended) ==
    LET wk == WheelPointKeys(ws)
        rk == {<<r, e>> : r \in DOMAIN intended, e \in {"start", "end"}}
    IN  [k \in wk \cup rk |->
            IF k \in rk
            THEN IF k[2] = "start" THEN intended[k[1]][1] ELSE intended[k[1]][2]
            ELSE WheelPointPosition(WheelById(ws, k[1]), k[2])[1]]

\* pass_targets: the initial targets override current_positions in pass 0 only
PassTargets(ws, intended, initial_targets, pass_num) ==
    IF pass_num = 0 /\ DOMAIN initial_targets # {}
    THEN DictUpdate(CurrentPositions(ws, intended), initial_targets)
    ELSE CurrentPositions(ws, intended)

\* The target of an endpoint connection in phase 1 ('mid' targets are ignored)
EndpointTarget(conn, pass_targets) ==
    IF conn # None /\ conn[2] # "mid" THEN Get(pass_targets, conn) ELSE None

\* Phase 1 for one rod: cur is its (start, end) of the previous pass.
EndpointPhase(rod, cur, pass_targets) ==
    LET target_start == EndpointTarget(rod.start_connection, pass_targets)
        target_end   == EndpointTarget(rod.end_connection, pass_targets)
        L == rod.length
    IN  IF RodFixedLength(rod)
        THEN IF Truthy(target_start) /\ Truthy(target_end)
             THEN LET s == target_start[1]
                      vec == target_end[1] - s
                  IN  [start |-> s,
                       end |-> IF AboveEps(Hypot(vec)) THEN s + Sgn(vec) * L ELSE s,
                       start_fixed |-> TRUE, end_fixed |-> TRUE]
             ELSE IF Truthy(target_start)
             THEN LET s == target_start[1]
                      vec == cur[2] - s
                  IN  [start |-> s,
                       end |-> IF AboveEps(Hypot(vec)) THEN s + Sgn(vec) * L ELSE s,
                       start_fixed |-> TRUE, end_fixed |-> FALSE]
             ELSE IF Truthy(target_end)
             THEN LET e == target_end[1]
                      vec == cur[1] - e
                  IN  [start |-> IF AboveEps(Hypot(vec)) THEN e + Sgn(vec) * L ELSE e,
                       end |-> e,
                       start_fixed |-> FALSE, end_fixed |-> TRUE]
             ELSE [start |-> cur[1], end |-> cur[2],
                   start_fixed |-> FALSE, end_fixed |-> FALSE]
        ELSE IF Truthy(target_start) /\ Truthy(target_end)
             THEN [start |-> target_start[1], end |-> target_end[1],
                   start_fixed |-> TRUE, end_fixed |-> TRUE]
             ELSE IF Truthy(target_start)
             THEN [start |-> target_start[1], end |-> cur[2],
                   start_fixed |-> TRUE, end_fixed |-> FALSE]
             ELSE IF Truthy(target_end)
             THEN [start |-> cur[1], end |-> target_end[1],
                   start_fixed |-> FALSE, end_fixed |-> TRUE]
             ELSE [start |-> cur[1], end |-> cur[2],
                   start_fixed |-> FALSE, end_fixed |-> FALSE]

\* positions_after_phase1: pass_targets, overwritten with the phase 1 start
\* and end of every rod, plus the mid-point of every rod that
\* components_by_id resolves to a Rod with a mid_point_distance.
PositionsAfterPhase1(rs, cbi, pass_targets, phase1) ==
    LET ids == DOMAIN phase1
        HasMid(r) == /\ r \in DOMAIN cbi
                     /\ cbi[r] = "rod"
                     /\ RodById(rs, r).mid_point_distance # None
        MidPos(r) ==
            LET vec == phase1[r].end - phase1[r].start
                current_len == Hypot(vec)
                d == RodById(rs, r).mid_point_distance[1]
            IN  IF AboveEps(current_len)
                THEN phase1[r].start + Sgn(vec) * Max2(0, Min2(current_len, d))
                ELSE phase1[r].start
        rk == {<<r, e>> : r \in ids, e \in {"start", "end"}}
        mk == {<<r, "mid">> : r \in {q \in ids : HasMid(q)}}
    IN  [k \in (DOMAIN pass_targets) \cup rk \cup mk |->
            IF k \in mk THEN MidPos(k[1])
            ELSE IF k \in rk
            THEN IF k[2] = "start" THEN phase1[k[1]].start ELSE phase1[k[1]].end
            ELSE pass_targets[k]]

\* Phase 2 for one rod, given its phase 1 result p1: the (start, end) it
\* stores in phase2_intended_positions.
MidpointPhase(rod, p1, positions_after_phase1) ==
    LET unchanged == <<p1.start, p1.end>>
        L == rod.length
        mid_dist == Max2(0, Min2(L, IF rod.mid_point_distance # None
                                    THEN rod.mid_point_distance[1] ELSE 0))
        target_mid == Get(positions_after_phase1, rod.mid_point_connection)
        vec_p1 == p1.end - p1.start
        mid_phase1 == IF AboveEps(Hypot(vec_p1))
                      THEN p1.start + Sgn(vec_p1) * mid_dist
                      ELSE p1.start
    IN  IF rod.mid_point_connection = None THEN unchanged
        ELSE IF target_mid = None THEN unchanged
        ELSE LET tm == target_mid[1]
                 d  == tm - mid_phase1
             IN  IF ~AboveThreshold(d * d) THEN unchanged
                 ELSE IF p1.start_fixed /\ p1.end_fixed THEN unchanged
                 ELSE IF p1.start_fixed
                 THEN IF RodFixedLength(rod)
                      THEN LET vec_S_TM == tm - p1.start
                           IN  IF AboveEps(mid_dist) /\ AboveEps(Hypot(vec_S_TM))
                               THEN <<p1.start,
                                      p1.start + ScaleVec(vec_S_TM, L, mid_dist)>>
                               ELSE <<p1.start, p1.start + L * Bearing(vec_p1)>>
                      ELSE unchanged
                 ELSE IF p1.end_fixed
                 THEN IF RodFixedLength(rod)
                      THEN LET vec_E_TM == tm - p1.end
                               dist_end_mid == L - mid_dist
                           IN  IF AboveEps(dist_end_mid) /\ AboveEps(Hypot(vec_E_TM))
                               THEN <<p1.end + ScaleVec(vec_E_TM, L, dist_end_mid),
                                      p1.end>>
                               ELSE <<p1.end - L * Bearing(vec_p1), p1.end>>
                      ELSE unchanged
                 ELSE <<p1.start + d, p1.end + d>>

\* Whether the pivot arithmetic of phase 2 stays on the integers for this rod
PivotExact(rod, p1, positions_after_phase1) ==
    LET L == rod.length
        mid_dist == Max2(0, Min2(L, IF rod.mid_point_distance # None
                                    THEN rod.mid_point_distance[1] ELSE 0))
        target_mid == Get(positions_after_phase1, rod.mid_point_connection)
    IN  \/ rod.mid_point_connection = None
        \/ target_mid = None
        \/ ~RodFixedLength(rod)
        \/ /\ mid_dist > 0 => ScaleExact(target_mid[1] - p1.start, L, mid_dist)
           /\ L - mid_dist > 0 => ScaleExact(target_mid[1] - p1.end, L, L - mid_dist)

MaxOf(S) == IF S = {} THEN 0 ELSE CHOOSE m \in S : \A x \in S : x <= m

MinOf(S) == CHOOSE m \in S : \A x \in S : m <= x

\* max_correction_this_pass_sq: the largest squared move of an endpoint
MaxCorrectionSq(intended, phase2) ==
    MaxOf({Max2((phase2[r][1] - intended[r][1]) * (phase2[r][1] - intended[r][1]),
                (phase2[r][2] - intended[r][2]) * (phase2[r][2] - intended[r][2]))
           : r \in DOMAIN intended})

\* Phase 2 of a pass over every rod, and what the pass leaves behind
PassPhase2(rs, intended, pass_targets, phase1, positions_after_phase1) ==
    [pass_targets |-> pass_targets,
     phase1 |-> phase1,
     phase2 |-> [r \in DOMAIN intended |->
                    MidpointPhase(RodById(rs, r), phase1[r], positions_after_phase1)],
     exact |-> \A r \in DOMAIN intended :
                  PivotExact(RodById(rs, r), phase1[r], positions_after_phase1)]

\* Phase 1 of a pass has given phase1: build positions_after_phase1
PassPhase1(rs, cbi, intended, pass_targets, phase1) ==
    PassPhase2(rs, intended, pass_targets, phase1,
               PositionsAfterPhase1(rs, cbi, pass_targets, phase1))

\* A pass with its pass_targets
PassWithTargets(rs, cbi, intended, pass_targets) ==
    PassPhase1(rs, cbi, intended, pass_targets,
               [r \in DOMAIN intended |->
                   EndpointPhase(RodById(rs, r), intended[r], pass_targets)])

\* The record a pass is summarised by
PassSummary(intended, p) ==
    [positions |-> p.phase2,
     phase1 |-> p.phase1,
     pass_targets |-> p.pass_targets,
     max_correction_sq |-> MaxCorrectionSq(intended, p.phase2),
     exact |-> p.exact]

\* One iteration of "for pass_num in range(num_passes)": the positions it
\* leaves in intended_rod_positions, and max_correction_this_pass_sq.
Pass(rs, ws, cbi, intended, initial_targets, pass_num) ==
    PassSummary(intended,
                PassWithTargets(rs, cbi, intended,
                                PassTargets(ws, intended, initial_targets, pass_num)))

\* The two loops "for rod in self.rods" of a pass, rod by rod in a given
\* order of the list.  A target is read from the dictionary built before the
\* loop, whatever the loop has stored so far.

\* Reading the positions the loop has stored so far instead
PhaseTargetsLive(pass_targets, phase1_so_far) ==
    [k \in DOMAIN pass_targets |->
        IF k[1] \in DOMAIN phase1_so_far /\ k[2] = "start"
        THEN phase1_so_far[k[1]].start
        ELSE IF k[1] \in DOMAIN phase1_so_far /\ k[2] = "end"
        THEN phase1_so_far[k[1]].end
        ELSE pass_targets[k]]

\* "pass_targets.get(start_conn)" while phase1_intended_positions is filled
PhaseTargets(pass_targets, phase1_so_far) == pass_targets

\* "positions_after_phase1.get(mid_conn)" while phase2_intended_positions
\* is filled
MidTargets(positions_after_phase1, phase2_so_far) == positions_after_phase1

\* phase1_intended_positions = intended_rod_positions.copy(), no flags yet
Phase1Start(intended) ==
    [r \in DOMAIN intended |->
        [start |-> intended[r][1], end |-> intended[r][2],
         start_fixed |-> FALSE, end_fixed |-> FALSE]]

\* phase2_intended_positions = phase1_intended_positions.copy()
Phase2Start(phase1) == [r \in DOMAIN phase1 |-> <<phase1[r].start, phase1[r].end>>]

RECURSIVE EndpointPhaseLoop(_, _, _, _, _)
\* Phase 1 over the rods rs[order[1]], rs[order[2]], ...
EndpointPhaseLoop(rs, order, intended, pass_targets, so_far) ==
    IF order = <<>> THEN so_far
    ELSE EndpointPhaseLoop(rs, Tail(order), intended, pass_targets,
            [so_far EXCEPT ![rs[Head(order)].id] =
                EndpointPhase(rs[Head(order)], intended[rs[Head(order)].id],
                              PhaseTargets(pass_targets, so_far))])

RECURSIVE MidpointPhaseLoop(_, _, _, _, _)
\* Phase 2 over the rods in the same order
MidpointPhaseLoop(rs, order, phase1, positions_after_phase1, so_far) ==
    IF order = <<>> THEN so_far
    ELSE MidpointPhaseLoop(rs, Tail(order), phase1, positions_after_phase1,
            [so_far EXCEPT ![rs[Head(order)].id] =
                MidpointPhase(rs[Head(order)], phase1[rs[Head(order)].id],
                              MidTargets(positions_after_phase1, so_far))])

OrderedPhase2(rs, order, phase1, positions_after_phase1) ==
    MidpointPhaseLoop(rs, order, phase1, positions_after_phase1, Phase2Start(phase1))

OrderedPhase1(rs, cbi, order, pass_targets, phase1) ==
    OrderedPhase2(rs, order, phase1,
                  PositionsAfterPhase1(rs, cbi, pass_targets, phase1))

OrderedWithTargets(rs, cbi, intended, order, pass_targets) ==
    OrderedPhase1(rs, cbi, order, pass_targets,
                  EndpointPhaseLoop(rs, order, intended, pass_targets,
                                    Phase1Start(intended)))

\* phase2_intended_positions of one pass that iterates the rods in `order`
OrderedPass(rs, ws, cbi, intended, initial_targets, pass_num, order) ==
    OrderedWithTargets(rs, cbi, intended, order,
                       PassTargets(ws, intended, initial_targets, pass_num))

\* Every order in which a list of rods can be iterated
RodOrders(rs) ==
    {o \in [DOMAIN rs -> DOMAIN rs] : \A i, j \in DOMAIN rs : o[i] = o[j] => i = j}

\* intended_rod_positions as the call initialises it
InitialIntended(rs) ==
    [r \in RodIds(rs) |-> <<RodById(rs, r).start_pos, RodById(rs, r).end_pos>>]

\* Applying the positions and taking the length from them
ApplyPositionsAndLength(rs, intended) ==
    [i \in DOMAIN rs |->
        IF rs[i].id \in DOMAIN intended
        THEN [rs[i] EXCEPT !.start_pos = intended[rs[i].id][1],
                           !.end_pos = intended[rs[i].id][2],
                           !.length = Hypot(intended[rs[i].id][2]
                                            - intended[rs[i].id][1])]
        ELSE rs[i]]

\* "Apply final positions": rod.length is left as it is
ApplyPositions(rs, intended) ==
    [i \in DOMAIN rs |->
        IF rs[i].id \in DOMAIN intended
        THEN [rs[i] EXCEPT !.start_pos = intended[rs[i].id][1],
                           !.end_pos = intended[rs[i].id][2]]
        ELSE rs[i]]

-----------------------------------------------------------------------------
(* Idle values of the parts of the state *)

\* DrawingCanvas.__init__: no drag, no rod creation in progress
UiIdle ==
    [dragging |-> FALSE, dragging_point |-> None, drag_start |-> None,
     mouse |-> None,
     creating_rod |-> FALSE, rod_start_pos |-> None,
     dragging_endpoint_was_connected |-> FALSE,
     dragging_midpoint_was_connected |-> FALSE]

NoOp == [op |-> "none"]

RelaxIdle ==
    [pc |-> "idle", call |-> 0, pass_num |-> 0, intended |-> EmptyDict,
     initial_targets |-> EmptyDict, max_correction_sq |-> 0,
     first_correction_sq |-> 0, passes |-> 0, before |-> EmptyDict,
     phase1 |-> EmptyDict, pass_targets |-> EmptyDict,
     first_converged |-> FALSE, prev_converged |-> FALSE]

PathIdle == [pc |-> "idle"]

\* No menu simulator window is open
MenuIdle == [sim |-> "none"]

-----------------------------------------------------------------------------
(* SpecRelax: _propagate_constraints on a loaded mechanism, pass by pass *)

\* The initial_targets the handlers of DrawingCanvas build: none
\* (populate_canvas_from_config), the dragged end of a rod, both ends of a
\* nudged rod, or the points of a moved wheel; each with the rod's mid-point
\* when it has one.  Every value is the point's position at the call.  The
\* rod the user has selected is the first of the list.
RodTargets(rod, ends) ==
    LET keys == {<<rod.id, e>> : e \in ends}
                \cup (IF rod.mid_point_distance # None /\ ~GetPointRaises(rod, 0)
                      THEN {<<rod.id, "mid">>} ELSE {})
    IN  [k \in keys |->
            IF k[2] = "start" THEN rod.start_pos
            ELSE IF k[2] = "end" THEN rod.end_pos
            ELSE GetPointAtDistance(rod, rod.mid_point_distance[1])]

WheelTargets(w) ==
    [k \in WheelPointKeys(<<w>>) |-> WheelPointPosition(w, k[2])[1]]

CallerTargets(rs, ws) ==
    {EmptyDict}
    \cup {RodTargets(rs[1], ends) : ends \in {{"start"}, {"end"}, {"start", "end"}}}
    \cup {WheelTargets(ws[i]) : i \in DOMAIN ws}

\* A wheel with two connection points, p1 on the centre and p2 at radius 20
RelaxWheelSet ==
    {NewWheel(1, c, 60, [p \in {"p1", "p2"} |-> IF p = "p1" THEN 0 ELSE 20], FALSE)
        : c \in {0, 10}}

\* Rods of nominal length L drawn at full length either way, or collapsed
RodShapes(id, starts, lengths) ==
    {NewRod(id, L, s, s + d * L, f) :
        s \in starts, L \in lengths, d \in {-1, 0, 1}, f \in BOOLEAN}

WheelRefs == {None, <<1, "p1">>, <<1, "p2">>}

\* Family 1: one rod on the wheel, any mix of endpoint and mid-point links
OneRodSet ==
    LET Linked == {[r EXCEPT !.start_connection = sc, !.end_connection = ec] :
                      r \in RodShapes(2, {0, 10, 20}, {10, 20}),
                      sc \in WheelRefs, ec \in WheelRefs}
    IN  Linked \cup
        {[r EXCEPT !.mid_point_distance = Some(r.length \div 2),
                   !.mid_point_connection = mc] : r \in Linked, mc \in WheelRefs}

\* Family 2: two rods linked to each other, rod-to-rod cycles included
TwoRodSet ==
    {<<[a EXCEPT !.start_connection = sc, !.end_connection = ec],
       [b EXCEPT !.start_connection = bs, !.end_connection = be]>> :
        a \in {r \in RodShapes(2, {0, 10}, {10}) : r.end_pos > r.start_pos},
        sc \in {None, <<1, "p1">>, <<3, "end">>},
        ec \in {None, <<3, "start">>},
        b \in {r \in RodShapes(3, {20}, {10}) : r.end_pos # r.start_pos},
        bs \in {None, <<1, "p2">>},
        be \in {None, <<2, "start">>}}

\* Family 3: two rods with mid-points, each mid-point connected to the wheel
\* or to a point of the other rod
MidRodSet ==
    {<<[a EXCEPT !.start_connection = sc,
                 !.mid_point_distance = Some(5), !.mid_point_connection = am],
       [b EXCEPT !.mid_point_distance = Some(5), !.mid_point_connection = bm]>> :
        a \in {r \in RodShapes(2, {0}, {10}) : r.end_pos > r.start_pos},
        sc \in {None, <<1, "p1">>},
        am \in {<<1, "p2">>, <<3, "start">>},
        b \in {r \in RodShapes(3, {20}, {10}) : r.end_pos < r.start_pos},
        bm \in {<<2, "end">>, <<2, "mid">>}}

InitRelax ==
    /\ \/ /\ \E w \in RelaxWheelSet : wheels = <<w>>
          /\ \E r \in OneRodSet : rods = <<r>>
       \/ /\ \E w \in {v \in RelaxWheelSet : v.center = 10} : wheels = <<w>>
          /\ \E rr \in TwoRodSet \cup MidRodSet : rods = rr
    /\ components_by_id =
          [i \in WheelIds(wheels) \cup RodIds(rods) |->
              IF i \in RodIds(rods) THEN "rod" ELSE "wheel"]
    /\ next_component_id = 1 + Len(wheels) + Len(rods)
    /\ canvas_wheel = None
    /\ selected_component = None
    /\ ui = UiIdle
    /\ last_op = NoOp
    /\ ops_done = 0
    /\ relax = RelaxIdle
    /\ path = PathIdle
    /\ menu = MenuIdle

EditorUnchanged ==
    UNCHANGED <<wheels, components_by_id, next_component_id, canvas_wheel,
                selected_component, ui, last_op, ops_done, path, menu>>

\* Entry of _propagate_constraints(initial_targets)
EnterCall(T, n) ==
    [RelaxIdle EXCEPT !.pc = "loop", !.call = n, !.initial_targets = T,
                      !.intended = InitialIntended(rods),
                      !.before = InitialIntended(rods)]

RelaxCall ==
    /\ relax.pc = "idle"
    /\ \E T \in CallerTargets(rods, wheels) : relax' = EnterCall(T, 1)
    /\ UNCHANGED rods
    /\ EditorUnchanged

\* One pass of the loop: break when the largest squared correction is below
\* the threshold, leave the loop after num_passes passes
RelaxPass ==
    /\ relax.pc = "loop"
    /\ relax.pass_num < num_passes
    /\ LET res == Pass(rods, wheels, components_by_id, relax.intended,
                       relax.initial_targets, relax.pass_num)
           converged == BelowThreshold(res.max_correction_sq)
       IN  relax' = [relax EXCEPT
                !.intended = res.positions,
                !.phase1 = res.phase1,
                !.pass_targets = res.pass_targets,
                !.max_correction_sq = res.max_correction_sq,
                !.first_correction_sq =
                    IF relax.pass_num = 0 THEN res.max_correction_sq ELSE @,
                !.first_converged = IF relax.pass_num = 0 THEN converged ELSE @,
                !.passes = @ + 1,
                !.pass_num = IF converged THEN @ ELSE @ + 1,
                !.pc = IF converged \/ relax.pass_num + 1 = num_passes
                       THEN "apply" ELSE "loop"]
    /\ UNCHANGED rods
    /\ EditorUnchanged

\* "Apply final positions" and return
RelaxApply ==
    /\ relax.pc = "apply"
    /\ rods' = ApplyPositions(rods, relax.intended)
    /\ relax' = [relax EXCEPT !.pc = "returned"]
    /\ EditorUnchanged

\* The caller repeats the call with the same initial_targets
RelaxCallAgain ==
    /\ relax.pc = "returned"
    /\ relax.call = 1
    /\ relax' = [EnterCall(relax.initial_targets, 2) EXCEPT
                    !.prev_converged = BelowThreshold(relax.max_correction_sq)]
    /\ UNCHANGED rods
    /\ EditorUnchanged

NextRelax == RelaxCall \/ RelaxPass \/ RelaxApply \/ RelaxCallAgain

SpecRelax == InitRelax /\ [][NextRelax]_vars

-----------------------------------------------------------------------------
(* Spec: the mechanism editor *)

\* At most MaxId component ids are handed out between two resets of the counter
MaxId == 3

\* Where the user clicks and drops, and the half-way points in between
Coords == {0, 10, 20}

ClickCoords == {0, 5, 10, 15, 20}

\* A session is followed for MaxOps user operations
MaxOps == 6

\* An exception that leaves an event handler ends the program
Running == last_op.op # "raised"

\* One more user operation on the running program
UserStep == Running /\ ops_done < MaxOps /\ ops_done' = ops_done + 1

\* While a mouse button is held on the canvas the canvas has the pointer:
\* the toolbar buttons, the parameter panel and the file dialog are
\* operated with the pointer, so they act between drags
PointerFree == ~ui.dragging

Raised(handler) == [op |-> "raised", in |-> handler]

\* last_op keeps what the properties below read of the last handler; the
\* handlers they do not single out leave Other
Other == [op |-> "other"]

RemoveAt(seq, i) == [j \in 1..(Len(seq) - 1) |-> IF j < i THEN seq[j] ELSE seq[j + 1]]

SolverUnchanged == UNCHANGED <<relax, path, menu>>

\* id -> kind entry of components_by_id
Entry(id, kind) == [k \in {id} |-> kind]

Init ==
    /\ wheels = <<>>
    /\ rods = <<>>
    /\ components_by_id = EmptyDict
    /\ next_component_id = 1
    /\ canvas_wheel = None
    /\ selected_component = None
    /\ ui = UiIdle
    /\ last_op = NoOp
    /\ ops_done = 0
    /\ relax = RelaxIdle
    /\ path = PathIdle
    /\ menu = MenuIdle

\* DrawingCanvas.add_wheel(center, diameter): a wheel with point 'p1' on its rim
AddWheel ==
    /\ UserStep
    /\ PointerFree
    /\ next_component_id <= MaxId
    /\ \E c \in {0, 10} :
          wheels' = Append(wheels,
                       NewWheel(next_component_id, c, 20, [p \in {"p1"} |-> 10], FALSE))
    /\ components_by_id' = DictUpdate(components_by_id, Entry(next_component_id, "wheel"))
    /\ next_component_id' = next_component_id + 1
    /\ last_op' = Other
    /\ UNCHANGED <<rods, canvas_wheel, selected_component, ui>>
    /\ SolverUnchanged

\* A refusal that never happens
CanvasWheelExistsNever(cw) == FALSE

\* "if self.canvas_wheel is not None: return"
CanvasWheelExists(cw) == cw # None

\* MainWindow._on_add_canvas and DrawingCanvas.add_canvas_wheel: refused when
\* a canvas wheel is set, else a wheel without connection points is added,
\* becomes the canvas wheel and is selected
AddCanvasWheel ==
    /\ UserStep
    /\ PointerFree
    /\ IF CanvasWheelExists(canvas_wheel)
       THEN /\ last_op' = [op |-> "add_canvas_wheel", refused |-> TRUE]
            /\ UNCHANGED <<wheels, components_by_id, next_component_id,
                           canvas_wheel, selected_component>>
       ELSE /\ next_component_id <= MaxId
            /\ LET w == NewWheel(next_component_id, 0, 500, EmptyDict, TRUE)
               IN  /\ wheels' = Append(wheels, w)
                   /\ canvas_wheel' = Some(w)
            /\ components_by_id' =
                   DictUpdate(components_by_id, Entry(next_component_id, "wheel"))
            /\ next_component_id' = next_component_id + 1
            /\ selected_component' = <<"wheel", next_component_id>>
            /\ last_op' = [op |-> "add_canvas_wheel", refused |-> FALSE]
    /\ UNCHANGED <<rods, ui>>
    /\ SolverUnchanged

\* DrawingCanvas.start_rod_creation(None), from the "add rod" button
StartRodCreation ==
    /\ UserStep
    /\ PointerFree
    /\ selected_component' = None
    /\ ui' = [ui EXCEPT !.creating_rod = TRUE, !.rod_start_pos = None,
                        !.dragging_point =
                            IF selected_component # None THEN None ELSE @]
    /\ last_op' = Other
    /\ UNCHANGED <<wheels, rods, components_by_id, next_component_id, canvas_wheel>>
    /\ SolverUnchanged

\* DrawingCanvas.finish_rod_creation(end_pos), reached by the second click.
\* "if self.rod_start_pos:" is false for a start at the origin, and then
\* nothing happens, the creation state is not reset either.
FinishRodCreation(end_pos) ==
    IF ~Truthy(ui.rod_start_pos)
    THEN UNCHANGED <<rods, components_by_id, next_component_id, ui>>
    ELSE LET length == Hypot(end_pos - ui.rod_start_pos[1])
         IN  /\ IF length > 0
                THEN /\ next_component_id <= MaxId
                     /\ \E f \in BOOLEAN :
                           rods' = Append(rods, NewRod(next_component_id, length,
                                                  ui.rod_start_pos[1], end_pos, f))
                     /\ components_by_id' =
                           DictUpdate(components_by_id, Entry(next_component_id, "rod"))
                     /\ next_component_id' = next_component_id + 1
                ELSE UNCHANGED <<rods, components_by_id, next_component_id>>
             /\ ui' = [ui EXCEPT !.creating_rod = FALSE, !.rod_start_pos = None]

\* self.drag_start = canvas_point.  The handlers only ever test it for
\* truth, so it is kept as the origin or as one point away from the origin.
DragStart(p) == Some(Sgn(Abs(p)))

\* _is_near_rod_endpoint: within 5 px = 2.5 mm
NearEndpoint(pos, p) == 2 * Abs(p - pos) <= 5

\* Rods whose start or end is under the click
EndpointHits(p) ==
    {i \in DOMAIN rods : NearEndpoint(rods[i].start_pos, p)
                         \/ NearEndpoint(rods[i].end_pos, p)}

\* Rods with a mid-point, and those whose mid-point is under the click
\* (closer than connection_snap_distance = 10 px = 5 mm)
MidRods == {i \in DOMAIN rods : rods[i].mid_point_distance # None}

MidHits(p) ==
    {i \in MidRods : /\ ~GetPointRaises(rods[i], 0)
                     /\ Abs(p - GetPointAtDistance(rods[i],
                                    rods[i].mid_point_distance[1])) < 5}

\* get_point_at_distance divides by a zero length before a mid-point is hit
MidScanRaises(p) ==
    \E i \in MidRods : /\ GetPointRaises(rods[i], 0)
                       /\ \A j \in MidHits(p) : i < j

\* Wheel.contains_point: within radius + 5 of the centre
WheelHits(p) ==
    {i \in DOMAIN wheels : 2 * Abs(p - wheels[i].center) <= wheels[i].diameter + 10}

\* DrawingCanvas.mousePressEvent (left button) at canvas point p
MousePress(p) ==
    /\ UserStep
    /\ UNCHANGED <<wheels, canvas_wheel>>
    /\ SolverUnchanged
    /\ IF ui.creating_rod
       THEN /\ p \in Coords
            /\ IF ui.rod_start_pos = None
               THEN /\ ui' = [ui EXCEPT !.rod_start_pos = Some(p)]
                    /\ UNCHANGED <<rods, components_by_id, next_component_id>>
               ELSE FinishRodCreation(p)
            /\ last_op' = Other
            /\ UNCHANGED selected_component
       ELSE /\ UNCHANGED <<rods, components_by_id, next_component_id>>
            /\ IF EndpointHits(p) # {}
               THEN LET i == MinOf(EndpointHits(p))
                        pt == IF NearEndpoint(rods[i].start_pos, p)
                              THEN "start" ELSE "end"
                        conn == IF pt = "start" THEN rods[i].start_connection
                                ELSE rods[i].end_connection
                    IN  /\ selected_component' = <<"rod", rods[i].id>>
                        /\ ui' = [ui EXCEPT !.dragging = TRUE,
                                            !.dragging_point = Some(pt),
                                            !.drag_start = DragStart(p),
                                            !.mouse = Some(p),
                                            !.dragging_endpoint_was_connected =
                                                conn # None]
                        /\ last_op' = Other
               ELSE IF MidScanRaises(p)
               THEN /\ last_op' = Raised("press")
                    /\ UNCHANGED <<selected_component, ui>>
               ELSE IF MidHits(p) # {}
               THEN LET i == MinOf(MidHits(p))
                    IN  /\ selected_component' = <<"rod", rods[i].id>>
                        /\ ui' = [ui EXCEPT !.dragging = TRUE,
                                            !.dragging_point = Some("mid"),
                                            !.drag_start = DragStart(p),
                                            !.mouse = Some(p),
                                            !.dragging_midpoint_was_connected =
                                                rods[i].mid_point_connection # None]
                        /\ last_op' = Other
               ELSE IF WheelHits(p) # {}
               THEN LET i == MinOf(WheelHits(p))
                    IN  /\ selected_component' = <<"wheel", wheels[i].id>>
                        /\ ui' = [ui EXCEPT !.dragging = TRUE,
                                            !.dragging_point = None,
                                            !.drag_start = DragStart(p),
                                            !.mouse = Some(p)]
                        /\ last_op' = Other
               ELSE /\ selected_component' = None
                    /\ ui' = [ui EXCEPT !.dragging_point =
                                  IF selected_component # None THEN None ELSE @]
                    /\ last_op' = Other

\* The whole of _propagate_constraints(T) on the rods rs.  The editor is
\* explored while the arithmetic stays on the integers and on the sheet:
\* exact is FALSE when a call leaves them.
Sheet == -40..60

OnSheet(positions) ==
    \A r \in DOMAIN positions :
        positions[r][1] \in Sheet /\ positions[r][2] \in Sheet

\* What the loop does after a pass with result res: leave it (done) with
\* the final positions, or go on to the next pass.  From pass 1 on every
\* pass applies the same function, so once a pass gives positions that an
\* earlier pass gave, the remaining passes repeat that cycle up to pass
\* num_passes; the result is read off the cycle.
AfterPass(res, intended, seen) ==
    IF ~res.exact \/ ~OnSheet(res.positions)
    THEN [done |-> TRUE, positions |-> intended, exact |-> FALSE]
    ELSE IF BelowThreshold(res.max_correction_sq) \/ Len(seen) + 1 = num_passes
    THEN [done |-> TRUE, positions |-> res.positions, exact |-> TRUE]
    ELSE IF \E j \in DOMAIN seen : seen[j] = res.positions
    THEN LET j == MinOf({k \in DOMAIN seen : seen[k] = res.positions})
             period == Len(seen) + 1 - j
         IN  [done |-> TRUE,
              positions |-> seen[j + ((num_passes - j) % period)],
              exact |-> TRUE]
    ELSE [done |-> FALSE, positions |-> res.positions, exact |-> TRUE]

\* intended_rod_positions before pass Len(seen)
IntendedBefore(rs, seen) ==
    IF seen = <<>> THEN InitialIntended(rs) ELSE seen[Len(seen)]

\* The result of the loop as the rods and the exactness of the arithmetic
Applied(rs, final) ==
    [rods |-> ApplyPositions(rs, final.positions), exact |-> final.exact]

\* The whole of _propagate_constraints(T) on the rods rs.  run[seen]
\* continues the loop after the passes 0 .. Len(seen)-1, seen[k] being
\* intended_rod_positions after pass k-1.
Propagate(rs, ws, cbi, T) ==
    LET run[seen \in Any] ==
            LET step == AfterPass(Pass(rs, ws, cbi, IntendedBefore(rs, seen),
                                       T, Len(seen)),
                                  IntendedBefore(rs, seen), seen)
            IN  IF step.done THEN step ELSE run[Append(seen, step.positions)]
    IN  Applied(rs, run[<<>>])

\* Every mid-point of the mechanism is at an integral place
MidPointsExact(rs) ==
    \A i \in DOMAIN rs :
        (rs[i].mid_point_distance # None /\ rs[i].length > 0)
            => ScaleExact(rs[i].end_pos - rs[i].start_pos,
                          rs[i].mid_point_distance[1], rs[i].length)

\* Rod.move_start_to / Rod.move_end_to: the length follows the endpoints
MoveStartTo(rod, pos) ==
    [rod EXCEPT !.start_pos = pos, !.length = Hypot(rod.end_pos - pos)]

MoveEndTo(rod, pos) ==
    [rod EXCEPT !.end_pos = pos, !.length = Hypot(pos - rod.start_pos)]

RodIndex(rs, id) == CHOOSE i \in DOMAIN rs : rs[i].id = id

WheelIndex(ws, id) == CHOOSE i \in DOMAIN ws : ws[i].id = id

SelectedIsRod == selected_component # None /\ selected_component[1] = "rod"

SelectedIsWheel == selected_component # None /\ selected_component[1] = "wheel"

\* _find_nearest_connection_point(p, dragged_component, dragged_point_type):
\* the candidates closer than connection_snap_distance / pixels_per_mm = 5,
\* in the order the code visits them; only the dragged point itself is left
\* out, the other points of the dragged rod are candidates.
IsDraggedPoint(rod, pt, dragged, dtype) ==
    dragged = <<"rod", rod.id>> /\ dtype = Some(pt)

NearestCandidates(rs, ws, p, dragged, dtype) ==
    LET wc == {[rank |-> 10 * WheelIndex(ws, k[1]) + (IF k[2] = "p1" THEN 1 ELSE 2),
                info |-> <<"wheel", k[1], k[2]>>,
                pos |-> WheelPointPosition(WheelById(ws, k[1]), k[2])[1]] :
                  k \in WheelPointKeys(ws)}
        rc == {[rank |-> 1000 + 10 * i + 1, info |-> <<"rod_start", rs[i].id, "start">>,
                pos |-> rs[i].start_pos] :
                  i \in {j \in DOMAIN rs : ~IsDraggedPoint(rs[j], "start", dragged, dtype)}}
              \cup
              {[rank |-> 1000 + 10 * i + 2, info |-> <<"rod_end", rs[i].id, "end">>,
                pos |-> rs[i].end_pos] :
                  i \in {j \in DOMAIN rs : ~IsDraggedPoint(rs[j], "end", dragged, dtype)}}
              \cup
              {[rank |-> 1000 + 10 * i + 3, info |-> <<"rod_mid", rs[i].id, "mid">>,
                pos |-> GetPointAtDistance(rs[i], rs[i].mid_point_distance[1])] :
                  i \in {j \in DOMAIN rs :
                            /\ rs[j].mid_point_distance # None
                            /\ ~GetPointRaises(rs[j], 0)
                            /\ ~IsDraggedPoint(rs[j], "mid", dragged, dtype)}}
    IN  {c \in wc \cup rc : Abs(p - c.pos) < 5}

FindNearestRaises(rs, dragged, dtype) ==
    \E i \in DOMAIN rs : /\ rs[i].mid_point_distance # None
                         /\ ~IsDraggedPoint(rs[i], "mid", dragged, dtype)
                         /\ GetPointRaises(rs[i], 0)

\* None, or Some(<<type, id, point, position>>) of the nearest candidate,
\* the first visited among equally near ones
FindNearestConnectionPoint(rs, ws, p, dragged, dtype) ==
    LET cs == NearestCandidates(rs, ws, p, dragged, dtype)
        Better(a, b) == \/ Abs(p - a.pos) < Abs(p - b.pos)
                        \/ Abs(p - a.pos) = Abs(p - b.pos) /\ a.rank <= b.rank
    IN  IF cs = {} THEN None
        ELSE LET c == CHOOSE a \in cs : \A b \in cs : Better(a, b)
             IN  Some(<<c.info[1], c.info[2], c.info[3], c.pos>>)

\* The initial_targets of a dragged or dropped rod point: the point itself,
\* the point it was dropped on, and the rod's mid-point when it has one
DragTargets(rod, pt, extra) ==
    DictUpdate(DictUpdate(RodTargets(rod, {pt}), extra),
               IF rod.mid_point_distance # None
               THEN [k \in {<<rod.id, "mid">>} |->
                        GetPointAtDistance(rod, rod.mid_point_distance[1])]
               ELSE EmptyDict)

\* get_point_at_distance(mid_point_distance) on a rod of length 0
MidRaises(rod) == rod.mid_point_distance # None /\ GetPointRaises(rod, 0)

\* DrawingCanvas.mouseMoveEvent with a button held and the pointer at canvas
\* point p.  "self.drag_start" is falsy for a press at the origin, and the
\* drag then moves nothing.
MouseMove(p) ==
    /\ UserStep
    /\ ui.dragging
    /\ UNCHANGED <<components_by_id, next_component_id, canvas_wheel,
                   selected_component>>
    /\ SolverUnchanged
    /\ ui' = [ui EXCEPT !.mouse = Some(p)]
    /\ IF ui.creating_rod \/ selected_component = None \/ ~Truthy(ui.drag_start)
       THEN /\ UNCHANGED <<wheels, rods>>
            /\ last_op' = Other
       ELSE IF SelectedIsWheel /\ ui.dragging_point = None
       THEN LET i == WheelIndex(wheels, selected_component[2])
                ws == [wheels EXCEPT ![i].center = p]
                T == WheelTargets(ws[i])
                res == Propagate(rods, ws, components_by_id, T)
            IN  /\ wheels' = ws
                /\ IF DOMAIN T # {}
                   THEN res.exact /\ rods' = res.rods
                   ELSE UNCHANGED rods
                /\ last_op' = Other
       ELSE IF SelectedIsRod /\ ui.dragging_point \in {Some("start"), Some("end")}
       THEN LET i == RodIndex(rods, selected_component[2])
                pt == ui.dragging_point[1]
                moved == IF pt = "start" THEN MoveStartTo(rods[i], p)
                         ELSE MoveEndTo(rods[i], p)
                rs == [rods EXCEPT ![i] = moved]
                res == Propagate(rs, wheels, components_by_id,
                                 DragTargets(moved, pt, EmptyDict))
            IN  /\ UNCHANGED wheels
                /\ IF MidRaises(moved)
                   THEN rods' = rs /\ last_op' = Raised("move")
                   ELSE /\ res.exact
                        /\ rods' = res.rods
                        /\ last_op' =
                              IF FindNearestRaises(res.rods, selected_component,
                                                   ui.dragging_point)
                              THEN Raised("move") ELSE Other
       ELSE /\ UNCHANGED <<wheels, rods>>
            /\ last_op' = IF SelectedIsRod /\ FindNearestRaises(rods,
                                 selected_component, ui.dragging_point)
                          THEN Raised("move") ELSE Other
    /\ MidPointsExact(rods')

\* DrawingCanvas.mouseReleaseEvent, the pointer being where the last press or
\* move left it
MouseRelease ==
    /\ UserStep
    /\ ui.dragging
    /\ UNCHANGED <<wheels, components_by_id, next_component_id, canvas_wheel,
                   selected_component>>
    /\ SolverUnchanged
    /\ LET p == ui.mouse[1]
           dropped == FindNearestConnectionPoint(rods, wheels, p,
                          selected_component, ui.dragging_point)
           released == [ui EXCEPT !.dragging = FALSE, !.mouse = None]
           done == [released EXCEPT !.dragging_point = None]
       IN  IF FindNearestRaises(rods, selected_component, ui.dragging_point)
           THEN /\ ui' = released
                /\ last_op' = Raised("release")
                /\ UNCHANGED rods
           ELSE IF SelectedIsRod /\ ui.dragging_point \in {Some("start"), Some("end")}
           THEN LET i == RodIndex(rods, selected_component[2])
                    pt == ui.dragging_point[1]
                IN  IF dropped # None
                    THEN LET d == dropped[1]
                             conn == <<d[2], d[3]>>
                             snapped ==
                                 IF pt = "start"
                                 THEN [rods[i] EXCEPT !.start_connection = conn,
                                                      !.start_pos = d[4]]
                                 ELSE [rods[i] EXCEPT !.end_connection = conn,
                                                      !.end_pos = d[4]]
                             connected ==
                                 [snapped EXCEPT !.length =
                                     Hypot(snapped.end_pos - snapped.start_pos)]
                             rs == [rods EXCEPT ![i] = connected]
                             T == DragTargets(connected, pt,
                                              [k \in {conn} |-> d[4]])
                             res == Propagate(rs, wheels, components_by_id, T)
                         IN  IF MidRaises(connected)
                             THEN /\ rods' = rs
                                  /\ ui' = [released EXCEPT
                                       !.dragging_endpoint_was_connected = FALSE]
                                  /\ last_op' = Raised("release")
                             ELSE /\ res.exact
                                  /\ rods' = res.rods
                                  /\ ui' = [done EXCEPT
                                       !.dragging_endpoint_was_connected = FALSE]
                                  /\ last_op' = [op |-> "release", rod |-> rods[i].id,
                                                 point |-> pt, onto |-> conn]
                    ELSE /\ rods' =
                              IF ~ui.dragging_endpoint_was_connected THEN rods
                              ELSE IF pt = "start"
                              THEN [rods EXCEPT ![i].start_connection = None]
                              ELSE [rods EXCEPT ![i].end_connection = None]
                         /\ ui' = [done EXCEPT
                                       !.dragging_endpoint_was_connected = FALSE]
                         /\ last_op' = Other
           ELSE IF SelectedIsRod /\ ui.dragging_point = Some("mid")
           THEN LET i == RodIndex(rods, selected_component[2])
                IN  IF dropped # None
                    THEN LET d == dropped[1]
                             conn == <<d[2], d[3]>>
                             connected == [rods[i] EXCEPT !.mid_point_connection = conn]
                             rs == [rods EXCEPT ![i] = connected]
                             T == DictUpdate(
                                     [k \in {<<connected.id, "mid">>} |->
                                        GetPointAtDistance(connected,
                                            connected.mid_point_distance[1])],
                                     IF d[4] # 0 THEN [k \in {conn} |-> d[4]]
                                     ELSE EmptyDict)
                             res == Propagate(rs, wheels, components_by_id, T)
                         IN  IF MidRaises(connected)
                             THEN /\ rods' = rs
                                  /\ ui' = [released EXCEPT
                                       !.dragging_midpoint_was_connected = FALSE]
                                  /\ last_op' = Raised("release")
                             ELSE /\ res.exact
                                  /\ rods' = res.rods
                                  /\ ui' = [done EXCEPT
                                       !.dragging_midpoint_was_connected = FALSE]
                                  /\ last_op' = [op |-> "release", rod |-> rods[i].id,
                                                 point |-> "mid", onto |-> conn]
                    ELSE /\ rods' =
                              IF ui.dragging_midpoint_was_connected
                              THEN [rods EXCEPT ![i].mid_point_connection = None]
                              ELSE rods
                         /\ ui' = [done EXCEPT
                                       !.dragging_midpoint_was_connected = FALSE]
                         /\ last_op' = Other
           ELSE /\ UNCHANGED rods
                /\ ui' = done
                /\ last_op' = Other
    /\ MidPointsExact(rods')

\* One rod of the clearing loop of delete_selected_component: the rod whose
\* id is the deleted id is skipped, the others lose their references to it
ClearConnectionsTo(rod, component_id) ==
    IF rod.id = component_id THEN rod
    ELSE [rod EXCEPT
            !.start_connection =
                IF @ # None /\ @[1] = component_id THEN None ELSE @,
            !.end_connection =
                IF @ # None /\ @[1] = component_id THEN None ELSE @,
            !.mid_point_connection =
                IF @ # None /\ @[1] = component_id THEN None ELSE @]

\* DrawingCanvas.delete_selected_component, from the Delete or Backspace key
DeleteSelectedComponent ==
    /\ UserStep
    /\ selected_component # None
    /\ LET kind == selected_component[1]
           component_id == selected_component[2]
           cleared == [i \in DOMAIN rods |-> ClearConnectionsTo(rods[i], component_id)]
       IN  /\ IF kind = "wheel"
              THEN /\ wheels' = RemoveAt(wheels, WheelIndex(wheels, component_id))
                   /\ rods' = cleared
              ELSE /\ rods' = RemoveAt(cleared, RodIndex(cleared, component_id))
                   /\ UNCHANGED wheels
           /\ components_by_id' =
                  [k \in (DOMAIN components_by_id) \ {component_id} |->
                      components_by_id[k]]
           /\ canvas_wheel' =
                  IF canvas_wheel # None /\ canvas_wheel[1].id = component_id
                  THEN None ELSE canvas_wheel
           /\ last_op' = [op |-> "delete", kind |-> kind, id |-> component_id]
    /\ selected_component' = None
    /\ ui' = [ui EXCEPT !.dragging = FALSE, !.dragging_point = None]
    /\ UNCHANGED next_component_id
    /\ SolverUnchanged

\* MainWindow._clear_canvas: canvas.canvas_wheel is not among what it resets
ClearCanvas ==
    /\ UserStep
    /\ wheels' = <<>>
    /\ rods' = <<>>
    /\ components_by_id' = EmptyDict
    /\ selected_component' = None
    /\ ui' = [ui EXCEPT !.dragging = FALSE, !.drag_start = None,
                        !.dragging_point = None, !.creating_rod = FALSE,
                        !.rod_start_pos = None]
    /\ next_component_id' = 1
    /\ last_op' = Other
    /\ UNCHANGED canvas_wheel
    /\ SolverUnchanged

\* Parsed configurations (MachineConfig) that File > Open may be given.
\* drive_wheels and rods are two dictionaries, each keyed by the id its XML
\* element carries: nothing relates the ids of the one to those of the other.
WheelConfig(id, center) ==
    [id |-> id, center |-> center, diameter |-> 20,
     connection_points |-> [p \in {"p1"} |-> 10]]

RodConfig(id, start, end, start_connection, pen) ==
    [id |-> id, length |-> Hypot(end - start), start_position |-> start,
     end_position |-> end, start_connection |-> start_connection,
     end_connection |-> None, mid_connection |-> None,
     mid_distance_from_start |-> None, pen_distance_from_start |-> pen]

ConfigSet ==
    {\* a wheel driving the start of a pen rod
     [drive_wheels |-> <<WheelConfig(1, 0)>>,
      rods |-> <<RodConfig(2, 10, 20, <<1, "p1">>, Some(5))>>],
     \* <wheel id="1"> and <rod id="1">
     [drive_wheels |-> <<WheelConfig(1, 0)>>,
      rods |-> <<RodConfig(1, 10, 20, <<1, "p1">>, None)>>],
     \* two rods with a <pen_position>
     [drive_wheels |-> <<>>,
      rods |-> <<RodConfig(1, 0, 10, None, Some(5)),
                 RodConfig(2, 10, 20, <<1, "end">>, Some(5))>>],
     \* a rod connected to a wheel the file does not define
     [drive_wheels |-> <<WheelConfig(1, 0)>>,
      rods |-> <<RodConfig(2, 10, 20, <<3, "p1">>, None)>>]}

\* The Rod that populate_canvas_from_config builds from a RodConfig
RodFromConfig(rc, fixed) ==
    [NewRod(rc.id, rc.length, rc.start_position, rc.end_position, fixed) EXCEPT
        !.pen_distance_from_start = rc.pen_distance_from_start,
        !.mid_point_distance = rc.mid_distance_from_start,
        !.start_connection = rc.start_connection,
        !.end_connection = rc.end_connection,
        !.mid_point_connection = rc.mid_connection]

\* DrawingCanvas._update_component_lookup: wheels first, then rods
ComponentLookup(ws, rs) ==
    [i \in WheelIds(ws) \cup RodIds(rs) |-> IF i \in RodIds(rs) THEN "rod" ELSE "wheel"]

\* MainWindow._handle_open: the selection is cleared, then
\* populate_canvas_from_config replaces the components, sets the id counter
\* past the largest id and settles the mechanism.  canvas.canvas_wheel is
\* left as it was.
OpenConfig ==
    /\ UserStep
    /\ PointerFree
    /\ \E config \in ConfigSet :
       \E fixed \in [DOMAIN config.rods -> BOOLEAN] :
          LET ws == [i \in DOMAIN config.drive_wheels |->
                        NewWheel(config.drive_wheels[i].id,
                                 config.drive_wheels[i].center,
                                 config.drive_wheels[i].diameter,
                                 config.drive_wheels[i].connection_points, FALSE)]
              rs == [i \in DOMAIN config.rods |->
                        RodFromConfig(config.rods[i], fixed[i])]
              cbi == ComponentLookup(ws, rs)
              res == Propagate(rs, ws, cbi, EmptyDict)
          IN  /\ res.exact
              /\ wheels' = ws
              /\ rods' = res.rods
              /\ components_by_id' = cbi
              /\ next_component_id' = MaxOf(WheelIds(ws) \cup RodIds(rs)) + 1
    /\ selected_component' = None
    /\ last_op' = [op |-> "open"]
    /\ UNCHANGED <<canvas_wheel, ui>>
    /\ SolverUnchanged
    /\ MidPointsExact(rods')

\* MainWindow._handle_pen_assignment(assigned_rod_id, True): the rods that
\* components_by_id holds, other than the assigned one, lose their pen;
\* nothing happens when components_by_id has no Rod under the assigned id
HandlePenAssignment(rs, cbi, assigned_rod_id) ==
    IF assigned_rod_id \notin DOMAIN cbi \/ cbi[assigned_rod_id] # "rod" THEN rs
    ELSE [i \in DOMAIN rs |->
            IF /\ rs[i].id # assigned_rod_id
               /\ rs[i].id \in DOMAIN cbi /\ cbi[rs[i].id] = "rod"
               /\ rs[i].pen_distance_from_start # None
            THEN [rs[i] EXCEPT !.pen_distance_from_start = None]
            ELSE rs[i]]

\* ParameterPanel._handle_pen_toggled on the selected rod: the "Has Pen" box
\* flips; checking it puts the pen half-way and signals pen_assigned
PenToggled ==
    /\ UserStep
    /\ PointerFree
    /\ SelectedIsRod
    /\ LET i == RodIndex(rods, selected_component[2])
           checked == rods[i].pen_distance_from_start = None
       IN  IF checked
           THEN /\ rods[i].length % 2 = 0
                /\ rods' = HandlePenAssignment(
                              [rods EXCEPT ![i].pen_distance_from_start =
                                               Some(rods[i].length \div 2)],
                              components_by_id, rods[i].id)
           ELSE rods' = [rods EXCEPT ![i].pen_distance_from_start = None]
    /\ last_op' = [op |-> "pen_toggled"]
    /\ UNCHANGED <<wheels, components_by_id, next_component_id, canvas_wheel,
                   selected_component, ui>>
    /\ SolverUnchanged

\* ParameterPanel._handle_mid_point_toggled on the selected rod: checking
\* the box puts the mid-point half-way, unchecking removes the distance and
\* leaves mid_point_connection as it is
MidPointToggled ==
    /\ UserStep
    /\ PointerFree
    /\ SelectedIsRod
    /\ LET i == RodIndex(rods, selected_component[2])
       IN  IF rods[i].mid_point_distance = None
           THEN /\ rods[i].length % 2 = 0
                /\ rods' = [rods EXCEPT ![i].mid_point_distance =
                                            Some(rods[i].length \div 2)]
           ELSE rods' = [rods EXCEPT ![i].mid_point_distance = None]
    /\ last_op' = Other
    /\ UNCHANGED <<wheels, components_by_id, next_component_id, canvas_wheel,
                   selected_component, ui>>
    /\ SolverUnchanged
    /\ MidPointsExact(rods')

Next ==
    \/ AddWheel
    \/ AddCanvasWheel
    \/ StartRodCreation
    \/ \E p \in ClickCoords : MousePress(p)
    \/ \E p \in Coords : MouseMove(p)
    \/ MouseRelease
    \/ DeleteSelectedComponent
    \/ ClearCanvas
    \/ OpenConfig
    \/ PenToggled
    \/ MidPointToggled

Spec == Init /\ [][Next]_vars

-----------------------------------------------------------------------------
(* SpecPath: calculate_path_sympy on a mechanism, one solver step at a time *)

\* The number of time steps asked for (MainWindow asks for 600)
PathSteps == 12

\* "if i > 10": a failed solve within the first steps falls back to the guess
FailAllowance == 10

\* sympy_points after the canvas wheel and the wheel loop: the origin and
\* every connection point of the canvas wheel and of each wheel
WheelSympyPoints(ws, cw) ==
    LET all == {ws[i] : i \in DOMAIN ws} \cup (IF cw # None THEN {cw[1]} ELSE {})
    IN  UNION {{<<w.id, "origin">>} \cup {<<w.id, q>> : q \in DOMAIN w.connection_points}
               : w \in all}

\* The points the rod loop defines for one rod
RodSympyPoints(rod) ==
    {<<rod.id, "start">>, <<rod.id, "end">>}
        \cup (IF rod.mid_point_distance # None THEN {<<rod.id, "mid">>} ELSE {})

\* sympy_points when the rod loop reaches rs[i]
PointsBeforeRod(ws, cw, rs, i) ==
    WheelSympyPoints(ws, cw) \cup UNION {RodSympyPoints(rs[j]) : j \in 1..(i - 1)}

\* sympy_points after the rod loop
AllSympyPoints(ws, cw, rs) == PointsBeforeRod(ws, cw, rs, Len(rs) + 1)

\* rod.id in sympy_rod_start_unk_coords: the start is unconnected, or its
\* target was not among the points when the rod loop reached the rod
StartUnknown(ws, cw, rs, i) ==
    \/ rs[i].start_connection = None
    \/ rs[i].start_connection \notin PointsBeforeRod(ws, cw, rs, i)

\* The equations section 3 appends to constraints for rs[i]
RodConstraints(ws, cw, rs, i) ==
    LET points == AllSympyPoints(ws, cw, rs)
        Two(b) == IF b THEN 2 ELSE 0
    IN  Two(/\ StartUnknown(ws, cw, rs, i)
            /\ rs[i].start_connection # None
            /\ rs[i].start_connection \in points)
        + Two(rs[i].end_connection # None /\ rs[i].end_connection \in points)
        + Two(/\ rs[i].mid_point_connection # None
              /\ rs[i].mid_point_distance # None
              /\ rs[i].mid_point_connection \in points)

RECURSIVE ConstraintCount(_, _, _, _)
\* len(constraints) after the first i rods
ConstraintCount(ws, cw, rs, i) ==
    IF i = 0 THEN 0
    ELSE ConstraintCount(ws, cw, rs, i - 1) + RodConstraints(ws, cw, rs, i)

\* pen_point_sm is set: a rod of the list has the id pen_rod_id
PenPointDefined(rs, pen_rod_id) == \E i \in DOMAIN rs : rs[i].id = pen_rod_id

\* A float coordinate: a finite value, NaN, or an infinity with its sign
Fin(n) == <<"fin", n>>
NaN == <<"nan", 0>>
Inf(sign) == <<"inf", sign>>
IsFinite(a) == a[1] = "fin"

FNeg(a) == IF a[1] = "nan" THEN NaN ELSE <<a[1], -a[2]>>

FAdd(a, b) ==
    IF a[1] = "nan" \/ b[1] = "nan" THEN NaN
    ELSE IF IsFinite(a) /\ IsFinite(b) THEN Fin(a[2] + b[2])
    ELSE IF IsFinite(a) THEN b
    ELSE IF IsFinite(b) THEN a
    ELSE IF a[2] = b[2] THEN a ELSE NaN

FSub(a, b) == FAdd(a, FNeg(b))

FMul(a, b) ==
    IF a[1] = "nan" \/ b[1] = "nan" THEN NaN
    ELSE IF IsFinite(a) /\ IsFinite(b) THEN Fin(a[2] * b[2])
    ELSE IF a[2] = 0 \/ b[2] = 0 THEN NaN
    ELSE Inf(Sgn(a[2]) * Sgn(b[2]))

\* math.cos and math.sin of an angle in degrees that is a multiple of 90
CosDeg(a) == CASE a % 360 = 0 -> 1 [] a % 360 = 180 -> -1 [] OTHER -> 0
SinDeg(a) == CASE a % 360 = 90 -> 1 [] a % 360 = 270 -> -1 [] OTHER -> 0

\* time_values[i] of np.linspace(0, duration, steps), for the duration
\* steps - 1 that makes the samples one time unit apart
SampleTime(i) == i

\* wheel.rotation_rate, 0.0 unless set
RotationRate(w) == IF "rotation_rate" \in DOMAIN w THEN w.rotation_rate ELSE 0

WithRotationRate(w, rate) ==
    [f \in DOMAIN w \cup {"rotation_rate"} |->
        IF f = "rotation_rate" THEN rate ELSE w[f]]

\* "Transform to canvas relative frame": the pen position relative to the
\* canvas wheel's center, rotated by minus the canvas angle
CanvasTransform(cw, pen, t) ==
    LET angle_deg == RotationRate(cw) * t
        cos_a == Fin(CosDeg(-angle_deg))
        sin_a == Fin(SinDeg(-angle_deg))
        rel_x == FSub(pen[1], Fin(cw.center))
        rel_y == FSub(pen[2], Fin(0))
    IN  <<FSub(FMul(rel_x, cos_a), FMul(rel_y, sin_a)),
          FAdd(FMul(rel_x, sin_a), FMul(rel_y, cos_a))>>

\* The pen expressions calculate_path_sympy is called on: lambdify_pen_pos
\* maps the pose and the time to a point; the singular one has no value
\* at one pose and a pole at another
PenCurves == {"regular", "singular"}

\* current_guess before the first successful solve: np.zeros
ZeroPose == -1

\* lambdify_pen_pos(*all_vals_np) for the pose solved at sample `pose`
\* (ZeroPose: the zero vector) and the time t
PenPosAbs(curve, pose, t) ==
    IF curve = "singular" /\ pose = 1 THEN <<NaN, NaN>>
    ELSE IF curve = "singular" /\ pose = 2 THEN <<Inf(1), Fin(t)>>
    ELSE <<Fin(10 + pose), Fin(t)>>

\* The sample i contributes: the pose the pen is evaluated at, the pen
\* position and the point stored for it
SamplePoint(cw, curve, i, pose) ==
    LET pen == PenPosAbs(curve, pose, SampleTime(i))
    IN  [sample |-> i, pose |-> pose, pen |-> pen,
         point |-> IF cw # None THEN CanvasTransform(cw[1], pen, SampleTime(i))
                   ELSE pen]

\* A loop that never takes the solution as the next guess
GuessKept(current_guess, solved_unknowns) == current_guess

\* "current_guess = solved_unknowns" after a solve that converged
GuessAfterSuccess(current_guess, solved_unknowns) == solved_unknowns

\* path_points.append(point_to_store)
AppendPointFirst(points, p) == <<p>> \o points

AppendPoint(points, p) == Append(points, p)

\* The failed solves explored in one run
MaxFailures == 2

\* The mechanisms calculate_path_sympy is called with
PathConnections == {None, <<1, "p1">>, <<1, "zz">>, <<7, "p1">>, <<3, "end">>}

PathRod(id, start, start_connection, end_connection) ==
    [NewRod(id, 10, start, start + 10, FALSE) EXCEPT
        !.start_connection = start_connection,
        !.end_connection = end_connection]

PathRodSets ==
    {<<PathRod(2, 10, sc, ec)>> : sc \in PathConnections, ec \in {None, <<1, "p1">>}}
    \cup {<<PathRod(2, 10, sc, ec), PathRod(3, 20, tc, None)>> :
             sc \in PathConnections, ec \in {None, <<1, "p1">>},
             tc \in {None, <<2, "end">>}}

PathCanvasWheel == NewWheel(4, 0, 500, EmptyDict, TRUE)

PathPenRodIds == {2, 3, 9}

\* The sample counts (steps) calculate_path_sympy is called with
PathStepCounts == {1, 5, PathSteps}

\* "if i % (steps // 10) == 0": the modulus is 0 for steps below 10, and
\* the statement raises ZeroDivisionError
ProgressPrintRaises(steps) == steps \div 10 = 0

\* canvas_wheel: none, or the canvas wheel at rest or turning a quarter turn
\* per sample, centred on the origin or away from it
PathCanvases ==
    {None, Some(PathCanvasWheel)}
    \cup {Some(WithRotationRate([PathCanvasWheel EXCEPT !.center = 10], rate)) :
             rate \in {0, 90}}

InitPath ==
    /\ canvas_wheel \in PathCanvases
    /\ wheels = <<NewWheel(1, 0, 20, [q \in {"p1"} |-> 10], FALSE)>>
                    \o (IF canvas_wheel # None THEN canvas_wheel ELSE <<>>)
    /\ rods \in PathRodSets
    /\ components_by_id = ComponentLookup(wheels, rods)
    /\ next_component_id = 5
    /\ selected_component = None
    /\ ui = UiIdle
    /\ last_op = NoOp
    /\ ops_done = 0
    /\ relax = RelaxIdle
    /\ \E pen_rod_id \in PathPenRodIds, curve \in PenCurves,
          steps \in PathStepCounts :
          path = [pc |-> "idle", pen_rod_id |-> pen_rod_id, curve |-> curve,
                  steps |-> steps]
    /\ menu = MenuIdle

PathUnchanged ==
    UNCHANGED <<wheels, rods, components_by_id, next_component_id, canvas_wheel,
                selected_component, ui, last_op, ops_done, relax, menu>>

\* Sections 1 to 3: bodies, points and the constraint equations
PathCall ==
    /\ path.pc = "idle"
    /\ "pen_rod_id" \in DOMAIN path
    /\ path' = [pc |-> "setup", pen_rod_id |-> path.pen_rod_id,
                curve |-> path.curve, steps |-> path.steps,
                constraints |-> ConstraintCount(wheels, canvas_wheel, rods, Len(rods)),
                pen_defined |-> PenPointDefined(rods, path.pen_rod_id),
                i |-> 0, solved |-> 0, guessed |-> 0, dummy |-> 0,
                points |-> <<>>, current_guess |-> ZeroPose,
                failures |-> 0, failed_run |-> 0, abort |-> "none"]
    /\ PathUnchanged

\* Section 4 up to the loop: without constraints, or when lambdify raises
\* (no pen point), a circle of radius 100 sampled at every time value is
\* returned
PathSetup ==
    /\ path.pc = "setup"
    /\ IF path.constraints = 0 \/ ~path.pen_defined
       THEN path' = [path EXCEPT !.pc = "returned", !.dummy = path.steps]
       ELSE path' = [path EXCEPT !.pc = "loop"]
    /\ PathUnchanged

\* One iteration of "for i, current_t_val in enumerate(time_values)": root()
\* succeeds, fails or raises; evaluating the pen position may raise as well.
\* failures and failed_run count the failed solves of the run and those in
\* a row up to this sample; abort tells what left the loop early.  The
\* progress print that opens the iteration is outside every try block: when
\* it raises, the exception leaves the function.
PathSolveStep ==
    /\ path.pc = "loop"
    /\ path.i < path.steps
    /\ \E outcome \in {"success", "failure", "exception"} :
          /\ outcome = "failure" => path.failures < MaxFailures
          /\ path' =
                IF ProgressPrintRaises(path.steps)
                THEN [path EXCEPT !.pc = "raised"]
                ELSE IF outcome = "success"
                THEN [path EXCEPT
                        !.solved = @ + 1, !.i = @ + 1,
                        !.current_guess = GuessAfterSuccess(@, path.i),
                        !.failed_run = 0,
                        !.points = AppendPoint(@,
                            SamplePoint(canvas_wheel, path.curve, path.i, path.i))]
                ELSE IF outcome = "failure" /\ ~(path.i > FailAllowance)
                THEN [path EXCEPT
                        !.guessed = @ + 1, !.i = @ + 1,
                        !.failures = @ + 1, !.failed_run = @ + 1,
                        !.points = AppendPoint(@,
                            SamplePoint(canvas_wheel, path.curve, path.i,
                                        path.current_guess))]
                ELSE IF outcome = "failure"
                THEN [path EXCEPT !.pc = "returned", !.abort = "failure",
                                  !.failures = @ + 1, !.failed_run = @ + 1]
                ELSE [path EXCEPT !.pc = "returned", !.abort = "exception"]
    /\ PathUnchanged

\* The loop is exhausted: "return path_points"
PathReturn ==
    /\ path.pc = "loop"
    /\ path.i = path.steps
    /\ path' = [path EXCEPT !.pc = "returned"]
    /\ PathUnchanged

NextPath == PathCall \/ PathSetup \/ PathSolveStep \/ PathReturn

SpecPath == InitPath /\ [][NextPath]_vars

-----------------------------------------------------------------------------
(* SpecSolvers: the two solvers, each called on its own mechanisms *)

InitSolvers == InitRelax \/ InitPath

NextSolvers ==
    \/ path = PathIdle /\ NextRelax
    \/ NextPath

SpecSolvers == InitSolvers /\ [][NextSolvers]_vars

-----------------------------------------------------------------------------
(* SpecPoint: Rod.get_point_at_distance called on one rod *)

\* The distances the method is called with
PointDistances == {-10, -5, 0, 5, 10, 15, 20, 25, 30}

\* The rods it is called on: along the line in either direction, length 0
\* included
PointRods ==
    {NewRod(1, L, start, start + d * L, FALSE) :
        start \in {0, 10, 20}, L \in {0, 10, 20}, d \in {-1, 1}}

InitPoint ==
    /\ wheels = <<>>
    /\ rods \in {<<rod>> : rod \in PointRods}
    /\ components_by_id = ComponentLookup(wheels, rods)
    /\ next_component_id = 2
    /\ canvas_wheel = None
    /\ selected_component = None
    /\ ui = UiIdle
    /\ last_op = NoOp
    /\ ops_done = 0
    /\ relax = RelaxIdle
    /\ path = PathIdle
    /\ menu = MenuIdle

\* rod.get_point_at_distance(distance): the point, or the exception
GetPointCall ==
    /\ last_op = NoOp
    /\ \E distance \in PointDistances :
          last_op' = IF GetPointRaises(rods[1], distance)
                     THEN [op |-> "get_point", distance |-> distance,
                           raised |-> TRUE]
                     ELSE [op |-> "get_point", distance |-> distance,
                           raised |-> FALSE,
                           point |-> GetPointAtDistance(rods[1], distance)]
    /\ UNCHANGED <<wheels, rods, components_by_id, next_component_id,
                   canvas_wheel, selected_component, ui, ops_done, relax, path,
                   menu>>

NextPoint == GetPointCall

SpecPoint == InitPoint /\ [][NextPoint]_vars

-----------------------------------------------------------------------------
(* The menu simulators: one window, driven by its four buttons             *)
(*                                                                         *)
(* Lists are indexed from 0 as in the source: At0(xs, i) is xs[i].         *)
(* LCDMenuSimulator16x2 and LCDMenuSimulator count speeds, depths and      *)
(* rates in tenths and the master time in hundredths of a second;          *)
(* CycloidMenuSimulator counts speed ratios in thousandths, depths and     *)
(* rates in tenths and the master time in milliseconds.                    *)

At0(xs, i) == xs[i + 1]

Set0(xs, i, v) == [xs EXCEPT ![i + 1] = v]

\* max(lo, min(hi, v))
Clamp(lo, hi, v) == Max2(lo, Min2(hi, v))

\* The encoder buttons: CW calls the handler with +1, CCW with -1
Increments == {1, -1}

InputOf(increment) == IF increment = 1 THEN "cw" ELSE "ccw"

\* How many button presses one session of a simulator is followed for
MaxPresses == 9

-----------------------------------------------------------------------------
(* python menu sim v2.py: LCDMenuSimulator16x2 *)

V2MenuOptions == <<"SPEED", "LFO", "RATIO", "MASTER", "RESET">>

V2Ratios ==
    << <<100, 100, 100, 100>>, <<50, 100, 150, 200>>,
       <<200, 150, 100, 50>>, <<75, 125, 175, 225>> >>

\* float(selected_set[i]), in tenths
V2RatioSpeed(ratio) == 10 * ratio

\* LCDMenuSimulator16x2.__init__
V2New ==
    [current_menu |-> "MAIN", selected_main_option_index |-> 0,
     wheel_speeds |-> <<100, 100, 100, 100>>,
     selected_speed_wheel_index |-> 0, editing_speed |-> FALSE,
     lfo_depths |-> <<0, 0, 0, 0>>, lfo_rates |-> <<0, 0, 0, 0>>,
     lfo_polarities |-> <<0, 0, 0, 0>>,
     selected_lfo_param_index |-> 0, editing_lfo |-> FALSE,
     selected_ratio_index |-> 0, confirming_ratio_apply |-> FALSE,
     ratio_apply_choice |-> 0,
     master_time |-> 100, editing_master |-> FALSE,
     confirming_reset |-> FALSE, reset_choice |-> 0,
     system_paused |-> FALSE]

\* A confirmation screen on which either choice applies the preset
V2AnySelected(ratio_apply_choice) == TRUE

\* Handlers that run on while the system is paused
V2NeverReturn(system_paused) == FALSE

\* "if self.system_paused: return" at the head of the encoder and the
\* short-press handler
V2PausedReturn(system_paused) == system_paused

\* _handle_encoder(increment)
V2HandleEncoder(s, increment) ==
    IF V2PausedReturn(s.system_paused) THEN s
    ELSE IF s.current_menu = "MAIN" THEN
        [s EXCEPT !.selected_main_option_index =
                      (@ + increment) % Len(V2MenuOptions)]
    ELSE IF s.current_menu = "SPEED" THEN
        IF s.editing_speed
        THEN [s EXCEPT !.wheel_speeds =
                 Set0(@, s.selected_speed_wheel_index,
                      Clamp(0, 2560,
                            At0(@, s.selected_speed_wheel_index) + increment))]
        ELSE [s EXCEPT !.selected_speed_wheel_index = (@ + increment) % 4]
    ELSE IF s.current_menu = "LFO" THEN
        IF s.editing_lfo
        THEN LET wheel_idx == s.selected_lfo_param_index \div 3
                 param_type_idx == s.selected_lfo_param_index % 3
             IN  IF param_type_idx = 0
                 THEN [s EXCEPT !.lfo_depths =
                          Set0(@, wheel_idx,
                               Clamp(0, 1000, At0(@, wheel_idx) + increment))]
                 ELSE IF param_type_idx = 1
                 THEN [s EXCEPT !.lfo_rates =
                          Set0(@, wheel_idx,
                               Clamp(0, 2560, At0(@, wheel_idx) + increment))]
                 ELSE [s EXCEPT !.lfo_polarities =
                          Set0(@, wheel_idx, 1 - At0(@, wheel_idx))]
        ELSE [s EXCEPT !.selected_lfo_param_index = (@ + increment) % 12]
    ELSE IF s.current_menu = "RATIO" THEN
        IF s.confirming_ratio_apply
        THEN [s EXCEPT !.ratio_apply_choice = (@ + increment) % 2]
        ELSE [s EXCEPT !.selected_ratio_index = (@ + increment) % Len(V2Ratios)]
    ELSE IF s.current_menu = "MASTER" THEN
        IF s.editing_master
        THEN [s EXCEPT !.master_time = Clamp(1, 99999, @ + increment)]
        ELSE s
    ELSE IF s.current_menu = "RESET" /\ s.confirming_reset THEN
        [s EXCEPT !.reset_choice = (@ + increment) % 2]
    ELSE s

\* _reset_defaults()
V2ResetDefaults(s) ==
    [s EXCEPT !.wheel_speeds = V2New.wheel_speeds,
              !.lfo_depths = V2New.lfo_depths,
              !.lfo_rates = V2New.lfo_rates,
              !.lfo_polarities = V2New.lfo_polarities,
              !.master_time = V2New.master_time,
              !.selected_speed_wheel_index = 0,
              !.selected_lfo_param_index = 0,
              !.selected_ratio_index = 0]

\* "if self.ratio_apply_choice == 1: # YES" on the confirmation screen
V2YesSelected(ratio_apply_choice) == ratio_apply_choice = 1

\* MAIN branch of handle_button_short_press: enter the selected submenu
V2EnterSubmenu(s) ==
    LET entered == At0(V2MenuOptions, s.selected_main_option_index)
        t == [s EXCEPT !.current_menu = entered]
    IN  IF entered = "SPEED"
        THEN [t EXCEPT !.selected_speed_wheel_index = 0, !.editing_speed = FALSE]
        ELSE IF entered = "LFO"
        THEN [t EXCEPT !.selected_lfo_param_index = 0, !.editing_lfo = FALSE]
        ELSE IF entered = "RATIO"
        THEN [t EXCEPT !.confirming_ratio_apply = FALSE]
        ELSE IF entered = "MASTER"
        THEN [t EXCEPT !.editing_master = TRUE]
        ELSE [t EXCEPT !.confirming_reset = TRUE, !.reset_choice = 0]

\* handle_button_short_press()
V2ShortPress(s) ==
    IF V2PausedReturn(s.system_paused) THEN s
    ELSE IF s.current_menu = "MAIN" THEN V2EnterSubmenu(s)
    ELSE IF s.current_menu = "SPEED" THEN
        [s EXCEPT !.editing_speed = ~@]
    ELSE IF s.current_menu = "LFO" THEN
        [s EXCEPT !.editing_lfo = ~@]
    ELSE IF s.current_menu = "RATIO" THEN
        IF ~s.confirming_ratio_apply
        THEN [s EXCEPT !.confirming_ratio_apply = TRUE,
                       !.ratio_apply_choice = 0]
        ELSE IF V2YesSelected(s.ratio_apply_choice)
        THEN [s EXCEPT !.wheel_speeds =
                           [i \in 1..4 |->
                               Clamp(0, 2560,
                                     V2RatioSpeed(At0(V2Ratios,
                                         s.selected_ratio_index)[i]))],
                       !.confirming_ratio_apply = FALSE,
                       !.current_menu = "MAIN"]
        ELSE [s EXCEPT !.confirming_ratio_apply = FALSE]
    ELSE IF s.current_menu = "MASTER" THEN
        [s EXCEPT !.editing_master = ~@]
    ELSE IF s.current_menu = "RESET" /\ s.confirming_reset THEN
        IF s.reset_choice = 1
        THEN [V2ResetDefaults(s) EXCEPT !.confirming_reset = FALSE,
                                        !.current_menu = "MAIN"]
        ELSE [s EXCEPT !.confirming_reset = FALSE, !.current_menu = "MAIN"]
    ELSE s

\* handle_button_long_press()
V2LongPress(s) ==
    IF s.current_menu = "MAIN"
    THEN [s EXCEPT !.system_paused = ~@]
    ELSE [s EXCEPT !.editing_speed = FALSE, !.editing_lfo = FALSE,
                   !.editing_master = FALSE,
                   !.confirming_ratio_apply = FALSE,
                   !.confirming_reset = FALSE, !.current_menu = "MAIN"]

-----------------------------------------------------------------------------
(* python_menu_simulator.py: CycloidMenuSimulator v1.4 *)
(* Menus are numbered as in the source: MAIN 0, SPEED 1, LFO 2, RATIO 3,   *)
(* MASTER 4, MICROSTEP 5, RESET 6.                                         *)

RATIO_PRESETS ==
    << <<1000, 1000, 1000, 1000>>, <<1000, 2000, 3000, 4000>>,
       <<1000, -1000, 1000, -1000>>, <<1000, 1500, 2250, 3375>> >>

VALID_MICROSTEPS == <<1, 2, 4, 8, 16, 32, 64, 128>>

\* CycloidMenuSimulator.__init__
CycNew ==
    [currentMenu |-> 0, selectedMainMenuOption |-> 0,
     selectedSpeedWheel |-> 0, selectedLfoParam |-> 0,
     selectedRatioPreset |-> 0, selectedMicrostepIndex |-> 4,
     pendingMicrostepMode |-> 16,
     editingSpeed |-> FALSE, editingLfo |-> FALSE, editingMaster |-> FALSE,
     editingMicrostep |-> FALSE, confirmingRatio |-> FALSE,
     confirmingReset |-> FALSE, ratioChoice |-> FALSE, resetChoice |-> FALSE,
     systemPaused |-> FALSE,
     wheelSpeeds |-> <<1000, 1000, 1000, 1000>>,
     lfoDepths |-> <<0, 0, 0, 0>>, lfoRates |-> <<10, 10, 10, 10>>,
     lfoPolarities |-> <<FALSE, FALSE, FALSE, FALSE>>,
     masterTime |-> 1000, currentMicrostepMode |-> 16]

\* "if self.systemPaused and self.currentMenu != self.MENU_MAIN: return"
CycPausedReturn(s) == s.systemPaused /\ s.currentMenu # 0

\* handle_encoder(change)
CycHandleEncoder(s, change) ==
    IF CycPausedReturn(s) THEN s
    ELSE IF s.currentMenu = 0 THEN
        [s EXCEPT !.selectedMainMenuOption = (@ + 6 + change) % 6]
    ELSE IF s.currentMenu = 1 THEN
        IF s.editingSpeed
        THEN [s EXCEPT !.wheelSpeeds =
                 Set0(@, s.selectedSpeedWheel,
                      Clamp(-10000, 10000,
                            At0(@, s.selectedSpeedWheel) + change * 100))]
        ELSE [s EXCEPT !.selectedSpeedWheel = (@ + 4 + change) % 4]
    ELSE IF s.currentMenu = 2 THEN
        IF s.editingLfo
        THEN LET wheel_index == s.selectedLfoParam \div 3
                 param_type == s.selectedLfoParam % 3
             IN  IF param_type = 0
                 THEN [s EXCEPT !.lfoDepths =
                          Set0(@, wheel_index,
                               Clamp(0, 1000, At0(@, wheel_index) + change))]
                 ELSE IF param_type = 1
                 THEN [s EXCEPT !.lfoRates =
                          Set0(@, wheel_index,
                               Clamp(0, 100, At0(@, wheel_index) + change))]
                 ELSE [s EXCEPT !.lfoPolarities =
                          Set0(@, wheel_index, ~At0(@, wheel_index))]
        ELSE [s EXCEPT !.selectedLfoParam = (@ + 12 + change) % 12]
    ELSE IF s.currentMenu = 3 THEN
        IF s.confirmingRatio
        THEN [s EXCEPT !.ratioChoice = ~@]
        ELSE [s EXCEPT !.selectedRatioPreset =
                           (@ + Len(RATIO_PRESETS) + change) % Len(RATIO_PRESETS)]
    ELSE IF s.currentMenu = 4 THEN
        IF s.editingMaster
        THEN [s EXCEPT !.masterTime = Clamp(10, 60000, @ + change * 10)]
        ELSE s
    ELSE IF s.currentMenu = 5 THEN
        IF s.editingMicrostep
        THEN LET index == (s.selectedMicrostepIndex + 8 + change) % 8
             IN  [s EXCEPT !.selectedMicrostepIndex = index,
                           !.pendingMicrostepMode = At0(VALID_MICROSTEPS, index)]
        ELSE s
    ELSE IF s.confirmingReset THEN
        [s EXCEPT !.resetChoice = ~@]
    ELSE s

\* apply_ratio_preset()
CycApplyRatioPreset(s) ==
    [s EXCEPT !.wheelSpeeds = At0(RATIO_PRESETS, s.selectedRatioPreset)]

\* reset_to_defaults(): every field but the two choices
CycResetToDefaults(s) ==
    [CycNew EXCEPT !.ratioChoice = s.ratioChoice,
                   !.resetChoice = s.resetChoice]

\* handle_short_press()
CycShortPress(s) ==
    IF CycPausedReturn(s) THEN s
    ELSE IF s.currentMenu = 0 THEN
        [s EXCEPT !.currentMenu = s.selectedMainMenuOption + 1]
    ELSE IF s.currentMenu = 1 THEN [s EXCEPT !.editingSpeed = ~@]
    ELSE IF s.currentMenu = 2 THEN [s EXCEPT !.editingLfo = ~@]
    ELSE IF s.currentMenu = 3 THEN
        IF ~s.confirmingRatio
        THEN [s EXCEPT !.confirmingRatio = TRUE, !.ratioChoice = FALSE]
        ELSE IF s.ratioChoice
        THEN [CycApplyRatioPreset(s) EXCEPT !.confirmingRatio = FALSE,
                                            !.currentMenu = 0]
        ELSE [s EXCEPT !.confirmingRatio = FALSE]
    ELSE IF s.currentMenu = 4 THEN [s EXCEPT !.editingMaster = ~@]
    ELSE IF s.currentMenu = 5 THEN [s EXCEPT !.editingMicrostep = ~@]
    ELSE IF s.confirmingReset THEN
        IF s.resetChoice
        THEN [CycResetToDefaults(s) EXCEPT !.confirmingReset = FALSE,
                                           !.currentMenu = 0]
        ELSE [s EXCEPT !.confirmingReset = FALSE, !.currentMenu = 0]
    ELSE s

\* handle_long_press()
CycLongPress(s) ==
    IF s.currentMenu = 0 THEN [s EXCEPT !.systemPaused = ~@]
    ELSE IF s.editingSpeed \/ s.editingLfo \/ s.editingMaster THEN
        [s EXCEPT !.editingSpeed = FALSE, !.editingLfo = FALSE,
                  !.editingMaster = FALSE]
    ELSE IF s.currentMenu = 5 THEN
        IF s.editingMicrostep
        THEN [s EXCEPT !.currentMicrostepMode = s.pendingMicrostepMode,
                       !.editingMicrostep = FALSE]
        ELSE [s EXCEPT !.currentMenu = 0]
    ELSE IF s.confirmingRatio \/ s.confirmingReset THEN
        [s EXCEPT !.confirmingRatio = FALSE, !.confirmingReset = FALSE,
                  !.currentMenu = 0]
    ELSE [s EXCEPT !.currentMenu = 0]

-----------------------------------------------------------------------------
(* LCD Menu simulation.py: LCDMenuSimulator *)

LcdMenuOptions == <<"SPEED", "LFO", "RATIO", "MASTER", "RESET">>

LcdRatios ==
    << <<100, 100, 100, 100>>, <<50, 100, 150, 200>>,
       <<200, 150, 100, 50>>, <<75, 125, 175, 225>> >>

\* LCDMenuSimulator.__init__
LcdNew ==
    [current_menu |-> "MAIN", selected_option |-> 0,
     wheel_speeds |-> <<100, 100, 100, 100>>, selected_wheel |-> 0,
     editing_speed |-> FALSE,
     lfo_rates |-> <<0, 0, 0, 0>>, lfo_depths |-> <<0, 0, 0, 0>>,
     selected_param |-> 0, editing_lfo |-> FALSE,
     selected_ratio_index |-> 0, applying_ratio |-> FALSE, apply_choice |-> 0,
     master_time |-> 100, editing_master |-> FALSE,
     reset_choice |-> 0, system_paused |-> FALSE, encoder_value |-> 0]

\* xs[i] raises IndexError: the index is past the end of the list
IndexError(xs, i) == i >= Len(xs)

\* The LFO branch of handle_encoder raises on its first subscript
LcdEncoderRaises(s) ==
    /\ s.current_menu = "LFO"
    /\ s.editing_lfo
    /\ IF s.selected_param % 2 = 0
       THEN IndexError(s.lfo_depths, s.selected_param \div 2)
       ELSE IndexError(s.lfo_rates, s.selected_param \div 2)

\* handle_encoder(increment) up to the call of update_display
LcdHandleEncoder(s, increment) ==
    LET t == [s EXCEPT !.encoder_value = @ + increment]
    IN  IF LcdEncoderRaises(s) THEN t
        ELSE IF s.current_menu = "MAIN" THEN
            [t EXCEPT !.selected_option = (@ + increment) % Len(LcdMenuOptions)]
        ELSE IF s.current_menu = "SPEED" THEN
            IF s.editing_speed
            THEN [t EXCEPT !.wheel_speeds =
                     Set0(@, s.selected_wheel,
                          Max2(Min2(At0(@, s.selected_wheel) + increment, 2560),
                               0))]
            ELSE [t EXCEPT !.selected_wheel = (@ + increment) % 4]
        ELSE IF s.current_menu = "LFO" THEN
            IF s.editing_lfo
            THEN IF s.selected_param % 2 = 0
                 THEN [t EXCEPT !.lfo_depths =
                          Set0(@, s.selected_param \div 2,
                               Max2(Min2(At0(@, s.selected_param \div 2)
                                            + increment, 1000), 0))]
                 ELSE [t EXCEPT !.lfo_rates =
                          Set0(@, s.selected_param \div 2,
                               Max2(Min2(At0(@, s.selected_param \div 2)
                                            + increment, 2560), 0))]
            ELSE [t EXCEPT !.selected_param = (@ + increment) % 12]
        ELSE IF s.current_menu = "MASTER" THEN
            IF s.editing_master
            THEN [t EXCEPT !.master_time = Max2(Min2(@ + increment, 99999), 1)]
            ELSE t
        ELSE IF s.current_menu = "RATIO" THEN
            IF s.applying_ratio
            THEN [t EXCEPT !.apply_choice = (@ + increment) % 2]
            ELSE [t EXCEPT !.selected_ratio_index =
                               (@ + increment) % Len(LcdRatios)]
        ELSE [t EXCEPT !.reset_choice = (@ + increment) % 2]

\* handle_button_short_press() up to the call of update_display
LcdShortPress(s) ==
    IF s.current_menu = "MAIN" THEN
        LET entered == At0(LcdMenuOptions, s.selected_option)
            t == [s EXCEPT !.current_menu = entered]
        IN  IF entered = "SPEED"
            THEN [t EXCEPT !.selected_wheel = 0, !.editing_speed = FALSE]
            ELSE IF entered = "LFO"
            THEN [t EXCEPT !.selected_param = 0, !.editing_lfo = FALSE]
            ELSE IF entered = "RATIO"
            THEN [t EXCEPT !.applying_ratio = TRUE, !.apply_choice = 0]
            ELSE IF entered = "MASTER"
            THEN [t EXCEPT !.editing_master = ~@]
            ELSE [t EXCEPT !.reset_choice = 0]
    ELSE IF s.current_menu = "SPEED" THEN [s EXCEPT !.editing_speed = ~@]
    ELSE IF s.current_menu = "LFO" THEN [s EXCEPT !.editing_lfo = ~@]
    ELSE IF s.current_menu = "MASTER" THEN
        IF s.editing_master
        THEN [s EXCEPT !.editing_master = FALSE]
        ELSE [s EXCEPT !.current_menu = "MAIN"]
    ELSE IF s.current_menu = "RATIO" THEN
        IF s.applying_ratio
        THEN IF s.apply_choice = 1
             THEN [s EXCEPT !.wheel_speeds =
                                [i \in 1..4 |->
                                    10 * At0(LcdRatios, s.selected_ratio_index)[i]],
                            !.current_menu = "MAIN"]
             ELSE [s EXCEPT !.applying_ratio = FALSE]
        ELSE [s EXCEPT !.current_menu = "MAIN"]
    ELSE IF s.reset_choice = 1
    THEN [s EXCEPT !.wheel_speeds = LcdNew.wheel_speeds,
                   !.lfo_rates = LcdNew.lfo_rates,
                   !.lfo_depths = LcdNew.lfo_depths,
                   !.master_time = LcdNew.master_time,
                   !.current_menu = "MAIN"]
    ELSE [s EXCEPT !.current_menu = "MAIN"]

\* handle_button_long_press() up to the call of update_display
LcdLongPress(s) ==
    IF s.current_menu = "MAIN"
    THEN [s EXCEPT !.system_paused = ~@]
    ELSE [s EXCEPT !.current_menu = "MAIN"]

\* update_display() raises: the LFO screen subscripts its four labels and
\* the four depths or rates with selected_param // 2
LcdDisplayRaises(s) ==
    /\ ~s.system_paused
    /\ s.current_menu = "LFO"
    /\ \/ IndexError(<<"X", "Y", "Z", "A">>, s.selected_param \div 2)
       \/ IF s.selected_param % 2 = 0
          THEN IndexError(s.lfo_depths, s.selected_param \div 2)
          ELSE IndexError(s.lfo_rates, s.selected_param \div 2)

-----------------------------------------------------------------------------
(* SpecMenu: a simulator window and the presses of its four buttons *)

\* A window after its constructor ran: no input yet
Window(sim, s) ==
    [sim |-> sim, s |-> s, input |-> "none", presses |-> 0, raised |-> FALSE]

InitMenu ==
    /\ wheels = <<>>
    /\ rods = <<>>
    /\ components_by_id = EmptyDict
    /\ next_component_id = 1
    /\ canvas_wheel = None
    /\ selected_component = None
    /\ ui = UiIdle
    /\ last_op = NoOp
    /\ ops_done = 0
    /\ relax = RelaxIdle
    /\ path = PathIdle
    /\ menu \in {Window("v2", V2New), Window("cycloid", CycNew),
                 Window("lcd", LcdNew)}

MenuUnchanged ==
    UNCHANGED <<wheels, rods, components_by_id, next_component_id, canvas_wheel,
                selected_component, ui, last_op, ops_done, relax, path>>

\* One button callback ran: the fields it left and whether it raised
Pressed(input, s, raised) ==
    /\ menu.presses < MaxPresses
    /\ menu' = [sim |-> menu.sim, s |-> s, input |-> input,
                presses |-> menu.presses + 1, raised |-> raised]
    /\ MenuUnchanged

V2EncoderTurn ==
    /\ menu.sim = "v2"
    /\ \E increment \in Increments :
          Pressed(InputOf(increment), V2HandleEncoder(menu.s, increment), FALSE)

V2ShortPressed ==
    /\ menu.sim = "v2"
    /\ Pressed("short", V2ShortPress(menu.s), FALSE)

V2LongPressed ==
    /\ menu.sim = "v2"
    /\ Pressed("long", V2LongPress(menu.s), FALSE)

CycEncoderTurn ==
    /\ menu.sim = "cycloid"
    /\ \E change \in Increments :
          Pressed(InputOf(change), CycHandleEncoder(menu.s, change), FALSE)

CycShortPressed ==
    /\ menu.sim = "cycloid"
    /\ Pressed("short", CycShortPress(menu.s), FALSE)

CycLongPressed ==
    /\ menu.sim = "cycloid"
    /\ Pressed("long", CycLongPress(menu.s), FALSE)

\* The handler, then update_display on what it left
LcdPressed(input, s, raised) == Pressed(input, s, raised \/ LcdDisplayRaises(s))

LcdEncoderTurn ==
    /\ menu.sim = "lcd"
    /\ \E increment \in Increments :
          LcdPressed(InputOf(increment), LcdHandleEncoder(menu.s, increment),
                     LcdEncoderRaises(menu.s))

LcdShortPressed ==
    /\ menu.sim = "lcd"
    /\ LcdPressed("short", LcdShortPress(menu.s), FALSE)

LcdLongPressed ==
    /\ menu.sim = "lcd"
    /\ LcdPressed("long", LcdLongPress(menu.s), FALSE)

NextMenu ==
    \/ V2EncoderTurn
    \/ V2ShortPressed
    \/ V2LongPressed
    \/ CycEncoderTurn
    \/ CycShortPressed
    \/ CycLongPressed
    \/ LcdEncoderTurn
    \/ LcdShortPressed
    \/ LcdLongPressed

SpecMenu == InitMenu /\ [][NextMenu]_vars

-----------------------------------------------------------------------------
(* Properties of the relaxation solver (SpecRelax) *)

\* A rod the solver has one endpoint connection for, the other endpoint free
\* (its mid-point may be connected as well)
OneEndpointConnected(rod) ==
    (rod.start_connection = None) # (rod.end_connection = None)

\* The rod entered the running call with its endpoints length apart
AtNominalLengthBefore(rod) ==
    Hypot(relax.before[rod.id][2] - relax.before[rod.id][1]) = rod.length

\* C1: when a _propagate_constraints call has returned, every fixed_length
\* rod with exactly one connected endpoint (with or without a mid-point
\* connection) has |end_pos - start_pos| equal to its nominal length.
\* Stated for the rods that had their nominal length when the call was made.
C1_FixedLengthPreserved ==
    relax.pc = "returned" =>
        \A i \in DOMAIN rods :
            (/\ RodFixedLength(rods[i])
             /\ OneEndpointConnected(rods[i])
             /\ AtNominalLengthBefore(rods[i]))
                => Hypot(rods[i].end_pos - rods[i].start_pos) = rods[i].length

\* C2: after every pass, a rod both of whose endpoint connections had a
\* target in that pass has its phase 1 start on the start target and its
\* phase 1 end on the end target, fixed_length or not.
C2_BothTargetsTaut ==
    relax.passes > 0 =>
        \A i \in DOMAIN rods :
            LET ts == EndpointTarget(rods[i].start_connection, relax.pass_targets)
                te == EndpointTarget(rods[i].end_connection, relax.pass_targets)
            IN  (ts # None /\ te # None) =>
                    /\ relax.phase1[rods[i].id].start = ts[1]
                    /\ relax.phase1[rods[i].id].end = te[1]

\* C3: in a second call with the same initial_targets, made after the first
\* call converged, the first pass has a largest squared correction below
\* 1/400 and the call returns with every rod where it was.
C3_SecondCallFixedPoint ==
    (relax.call = 2 /\ relax.prev_converged /\ relax.passes > 0) =>
        /\ relax.first_correction_sq * 400 < 1
        /\ relax.pc = "returned" => InitialIntended(rods) = relax.before

\* C5: a call runs at most 500 passes, keeps looping only while no pass has
\* had a largest squared correction below 1/400, and leaves the loop either
\* on such a pass or after the 500th.
C5_BoundedPasses ==
    /\ relax.passes <= 500
    /\ (relax.pc = "loop" /\ relax.passes > 0)
          => ~(relax.max_correction_sq * 400 < 1)
    /\ relax.pc \in {"apply", "returned"}
          => (relax.max_correction_sq * 400 < 1 \/ relax.passes = 500)

\* A call on two rods linked in a cycle that ran all 500 passes without
\* converging, and returned
C5_Witness ==
    /\ relax.pc = "returned"
    /\ relax.passes = 500
    /\ Len(rods) = 2
    /\ rods[1].start_connection = <<3, "end">>
    /\ rods[2].end_connection = <<2, "start">>
    /\ ~(relax.max_correction_sq * 400 < 1)


\* The current position of the point a connection names: a wheel's
\* connection point, or the start, mid or end point of a rod
TargetPosition(rs, ws, conn) ==
    IF conn[1] \in WheelIds(ws)
    THEN WheelPointPosition(WheelById(ws, conn[1]), conn[2])
    ELSE IF conn[1] \notin RodIds(rs) THEN None
    ELSE LET r == RodById(rs, conn[1])
         IN  IF conn[2] = "start" THEN Some(r.start_pos)
             ELSE IF conn[2] = "end" THEN Some(r.end_pos)
             ELSE IF /\ conn[2] = "mid"
                     /\ r.mid_point_distance # None
                     /\ ~GetPointRaises(r, r.mid_point_distance[1])
             THEN Some(GetPointAtDistance(r, r.mid_point_distance[1]))
             ELSE None

\* C15: when a _propagate_constraints call has converged and returned,
\* every connected endpoint of a non-fixed rod, and of a fixed_length rod
\* with a single connected endpoint, is at the current position of the
\* point it is connected to.
C15_EndpointsOnTargets ==
    (relax.pc = "returned" /\ BelowThreshold(relax.max_correction_sq)) =>
        \A i \in DOMAIN rods :
            (~RodFixedLength(rods[i]) \/ OneEndpointConnected(rods[i])) =>
                /\ (/\ rods[i].start_connection # None
                    /\ TargetPosition(rods, wheels, rods[i].start_connection) # None)
                      => Some(rods[i].start_pos)
                            = TargetPosition(rods, wheels, rods[i].start_connection)
                /\ (/\ rods[i].end_connection # None
                    /\ TargetPosition(rods, wheels, rods[i].end_connection) # None)
                      => Some(rods[i].end_pos)
                            = TargetPosition(rods, wheels, rods[i].end_connection)

\* C16: when a _propagate_constraints call has returned, every rod that is
\* not fixed_length has a length field equal to the distance between its
\* endpoints.  Stated for the rods whose length field was right when the
\* call was made.
C16_LengthFollowsEndpoints ==
    relax.pc = "returned" =>
        \A i \in DOMAIN rods :
            (~RodFixedLength(rods[i]) /\ AtNominalLengthBefore(rods[i]))
                => rods[i].length = Hypot(rods[i].end_pos - rods[i].start_pos)

\* C19: the positions a pass computes do not depend on the order in which
\* the two loops of the pass iterate the rods: iterated in any order, they
\* leave the positions the pass leaves.
C19_OrderIndependent ==
    [][(relax.pc = "loop" /\ relax'.passes = relax.passes + 1) =>
          \A order \in RodOrders(rods) :
              OrderedPass(rods, wheels, components_by_id, relax.intended,
                          relax.initial_targets, relax.pass_num, order)
                  = relax'.intended]_vars

\* A pass on two rods, one of them connected to the other, has moved a rod
C19_Witness ==
    /\ Len(rods) = 2
    /\ relax.passes > 0
    /\ relax.max_correction_sq > 0
    /\ \E i \in DOMAIN rods :
          \E conn \in {rods[i].start_connection, rods[i].end_connection} :
              conn # None /\ conn[1] \in RodIds(rods)

\* The rod has no endpoint target in the pass just run
Untargeted(rod) ==
    /\ EndpointTarget(rod.start_connection, relax.pass_targets) = None
    /\ EndpointTarget(rod.end_connection, relax.pass_targets) = None

\* C20: after the endpoint phase of the first pass, a non-fixed rod with
\* exactly one targeted endpoint has that endpoint on its target and the
\* other endpoint where it was; a rod with no targeted endpoint and no
\* mid-point connection has both endpoints where they were when the call
\* was made, after every pass and at the return.
C20_OneTargetMovesOneEnd ==
    /\ relax.passes = 1 =>
          \A i \in DOMAIN rods :
              LET ts == EndpointTarget(rods[i].start_connection, relax.pass_targets)
                  te == EndpointTarget(rods[i].end_connection, relax.pass_targets)
                  p1 == relax.phase1[rods[i].id]
                  was == relax.before[rods[i].id]
              IN  ~RodFixedLength(rods[i]) =>
                     /\ (ts # None /\ te = None) =>
                            (p1.start = ts[1] /\ p1.end = was[2])
                     /\ (ts = None /\ te # None) =>
                            (p1.end = te[1] /\ p1.start = was[1])
    /\ relax.passes > 0 =>
          \A i \in DOMAIN rods :
              (Untargeted(rods[i]) /\ rods[i].mid_point_connection = None) =>
                  /\ relax.intended[rods[i].id] = relax.before[rods[i].id]
                  /\ relax.pc = "returned" =>
                        <<rods[i].start_pos, rods[i].end_pos>>
                            = relax.before[rods[i].id]

\* The endpoint connection names a point that exists and has a position
EndpointHasTarget(conn) ==
    /\ conn # None
    /\ conn[2] # "mid"
    /\ TargetPosition(rods, wheels, conn) # None

\* C21: after every pass, a rod with a mid-point connection whose two
\* endpoints both had a target in the endpoint phase is where the endpoint
\* phase put it: the mid-point phase has not moved it.
C21_EndpointsWinOverMid ==
    relax.passes > 0 =>
        \A i \in DOMAIN rods :
            (/\ rods[i].mid_point_connection # None
             /\ EndpointHasTarget(rods[i].start_connection)
             /\ EndpointHasTarget(rods[i].end_connection))
                => relax.intended[rods[i].id]
                     = <<relax.phase1[rods[i].id].start,
                         relax.phase1[rods[i].id].end>>

\* The target the mid-point phase of the pass just run read for the rod
MidTargetOfPass(rod) ==
    Get(PositionsAfterPhase1(rods, components_by_id, relax.pass_targets,
                             relax.phase1),
        rod.mid_point_connection)

\* C22: in the first pass, a fixed_length rod whose pivot met a zero-length
\* vector keeps its nominal length and its previous bearing: in the
\* endpoint phase when the snapped endpoint coincides with the rod's other
\* endpoint, in the mid-point phase when the mid-point target coincides with
\* the pivot endpoint.
C22_DegeneratePivotKeepsRod ==
    relax.passes = 1 =>
        \A i \in DOMAIN rods :
            LET p1 == relax.phase1[rods[i].id]
                was == relax.before[rods[i].id]
                now == relax.intended[rods[i].id]
                tm == MidTargetOfPass(rods[i])
            IN  RodFixedLength(rods[i]) =>
                  /\ (/\ p1.start_fixed
                      /\ ~p1.end_fixed
                      /\ was[2] = p1.start) =>
                        /\ Hypot(p1.end - p1.start) = rods[i].length
                        /\ Bearing(p1.end - p1.start) = Bearing(was[2] - was[1])
                  /\ (/\ p1.end_fixed
                      /\ ~p1.start_fixed
                      /\ was[1] = p1.end) =>
                        /\ Hypot(p1.end - p1.start) = rods[i].length
                        /\ Bearing(p1.end - p1.start) = Bearing(was[2] - was[1])
                  /\ (/\ rods[i].mid_point_connection # None
                      /\ tm # None
                      /\ p1.start_fixed
                      /\ ~p1.end_fixed
                      /\ tm = Some(p1.start)) =>
                        /\ Hypot(now[2] - now[1]) = rods[i].length
                        /\ Bearing(now[2] - now[1]) = Bearing(p1.end - p1.start)
                  /\ (/\ rods[i].mid_point_connection # None
                      /\ tm # None
                      /\ p1.end_fixed
                      /\ ~p1.start_fixed
                      /\ tm = Some(p1.end)) =>
                        /\ Hypot(now[2] - now[1]) = rods[i].length
                        /\ Bearing(now[2] - now[1]) = Bearing(p1.end - p1.start)

-----------------------------------------------------------------------------
(* Properties of the editor (Spec) *)

\* The connections of a rod that are set
ConnectionsOf(rod) ==
    {rod.start_connection, rod.end_connection, rod.mid_point_connection} \ {None}

\* C4: after delete_selected_component has removed the component with id c,
\* no rod has a start, end or mid-point connection whose component id is c,
\* the component is in neither wheels nor rods, and components_by_id has no
\* entry for c.
C4_DeleteLeavesNoReference ==
    last_op.op = "delete" =>
        /\ \A i \in DOMAIN rods :
              \A conn \in ConnectionsOf(rods[i]) : conn[1] # last_op.id
        /\ last_op.id \notin WheelIds(wheels) \cup RodIds(rods)
        /\ last_op.id \notin DOMAIN components_by_id

\* C6: wheels and rods together carry pairwise different ids, and
\* components_by_id maps exactly these ids, each to the kind of component
\* that carries it.
C6_SingleIdSpace ==
    /\ \A i, j \in DOMAIN wheels : i # j => wheels[i].id # wheels[j].id
    /\ \A i, j \in DOMAIN rods : i # j => rods[i].id # rods[j].id
    /\ WheelIds(wheels) \cap RodIds(rods) = {}
    /\ DOMAIN components_by_id = WheelIds(wheels) \cup RodIds(rods)
    /\ \A c \in DOMAIN components_by_id :
          components_by_id[c] = (IF c \in RodIds(rods) THEN "rod" ELSE "wheel")

\* C7: at most one rod has pen_distance_from_start set.
C7_SinglePen ==
    Cardinality({i \in DOMAIN rods : rods[i].pen_distance_from_start # None}) <= 1

\* C8: at most one wheel of the mechanism is the canvas wheel, and
\* add_canvas_wheel taken while canvas_wheel is set leaves wheels,
\* components_by_id, the id counter and canvas_wheel as they were.
C8_SingleCanvasWheel ==
    /\ [](Cardinality({i \in DOMAIN wheels : WheelIsCanvas(wheels[i])}) <= 1)
    /\ [][(last_op'.op = "add_canvas_wheel" /\ canvas_wheel # None)
            => UNCHANGED <<wheels, components_by_id, next_component_id,
                           canvas_wheel>>]_vars

\* add_canvas_wheel has been refused with the canvas wheel on the canvas
C8_Witness ==
    /\ last_op.op = "add_canvas_wheel"
    /\ last_op.refused
    /\ canvas_wheel # None
    /\ \E i \in DOMAIN wheels : WheelIsCanvas(wheels[i])

\* C9: no rod has a start, end or mid-point connection that names the
\* start, mid or end of that same rod.
C9_NoSelfConnection ==
    \A i \in DOMAIN rods :
        \A conn \in ConnectionsOf(rods[i]) :
            ~(conn[1] = rods[i].id /\ conn[2] \in {"start", "mid", "end"})

\* C17: in every state of the editor, a rod's mid_point_distance and its
\* pen_distance_from_start, when set, lie between 0 and the rod's length.
C17_DistancesWithinLength ==
    \A i \in DOMAIN rods :
        /\ rods[i].mid_point_distance # None =>
              (0 <= rods[i].mid_point_distance[1]
                 /\ rods[i].mid_point_distance[1] <= rods[i].length)
        /\ rods[i].pen_distance_from_start # None =>
              (0 <= rods[i].pen_distance_from_start[1]
                 /\ rods[i].pen_distance_from_start[1] <= rods[i].length)

\* C25: whenever canvas_wheel is set, that wheel is one of canvas.wheels and
\* its id is in components_by_id.
C25_CanvasWheelIsMember ==
    canvas_wheel # None =>
        /\ \E i \in DOMAIN wheels : wheels[i] = canvas_wheel[1]
        /\ canvas_wheel[1].id \in DOMAIN components_by_id

-----------------------------------------------------------------------------
(* Properties of the path sampler (SpecPath) *)

\* A connection of some rod names a component or point that the mechanism
\* does not have
DanglingConnection ==
    \E i \in DOMAIN rods :
        \E conn \in ConnectionsOf(rods[i]) :
            conn \notin AllSympyPoints(wheels, canvas_wheel, rods)

\* The configuration is malformed: no constraint equation, a pen rod id
\* that no rod has, or a dangling connection
PathMalformed ==
    \/ ConstraintCount(wheels, canvas_wheel, rods, Len(rods)) = 0
    \/ ~PenPointDefined(rods, path.pen_rod_id)
    \/ DanglingConnection

\* C10: when calculate_path_sympy has returned, none of the returned points
\* is from the substitute circle, and a malformed configuration has given no
\* points at all.
C10_NoSubstituteCurve ==
    path.pc = "returned" =>
        /\ path.dummy = 0
        /\ PathMalformed => path.solved + path.guessed + path.dummy = 0

\* C12: a sample at which the root-finder fails does not end the path by
\* itself: the loop is left on a failed solve only when the sample before
\* it failed as well.
C12_IsolatedFailureContinues ==
    (path.pc = "returned" /\ path.abort = "failure") => path.failed_run > 1

\* C13: no returned point has a non-finite coordinate.
C13_OnlyFinitePoints ==
    path.pc = "returned" =>
        \A k \in DOMAIN path.points :
            IsFinite(path.points[k].point[1]) /\ IsFinite(path.points[k].point[2])

\* C14: without a canvas wheel, and with a canvas wheel whose rotation rate
\* is 0, every returned point is the pen's absolute position, wherever the
\* canvas wheel's center lies.
C14_RestingCanvasKeepsPoint ==
    (/\ path.pc = "returned"
     /\ (canvas_wheel = None \/ RotationRate(canvas_wheel[1]) = 0)) =>
        \A k \in DOMAIN path.points :
            (IsFinite(path.points[k].pen[1]) /\ IsFinite(path.points[k].pen[2]))
                => path.points[k].point = path.points[k].pen

\* C18: the points are in increasing sample order, one per processed
\* sample; a run that no sample aborts returns `steps` points, an aborted
\* run returns the points of the samples before the aborting one, and
\* nothing is appended once the function has returned.
C18_OrderedPoints ==
    /\ [](path.pc \in {"loop", "returned"} =>
            /\ \A k \in DOMAIN path.points : path.points[k].sample = k - 1
            /\ Len(path.points) = path.i)
    /\ []((path.pc = "returned" /\ path.abort = "none") =>
            Len(path.points) + path.dummy = path.steps)
    /\ [][path.pc = "returned" => path' = path]_vars

C18_Witness ==
    /\ path.pc = "returned"
    /\ path.abort = "failure"
    /\ path.guessed > 0
    /\ Len(path.points) = FailAllowance + 1

\* The samples among the first n whose solve converged
ConvergedBefore(n) ==
    {path.points[k].sample : k \in {j \in 1..n : path.points[j].pose = path.points[j].sample}}

\* The solution of the most recent of them, the zero vector when none has
LastConvergedBefore(n) ==
    IF ConvergedBefore(n) = {} THEN ZeroPose
    ELSE CHOOSE m \in ConvergedBefore(n) : \A x \in ConvergedBefore(n) : x <= m

\* C23: the guess the root-finder is given is the zero vector until a
\* sample has converged and the solution of the most recent converged
\* sample afterwards; a sample that fails is evaluated at that guess and
\* leaves it unchanged.
C23_GuessIsLastSolution ==
    path.pc \in {"loop", "returned"} =>
        /\ path.current_guess = LastConvergedBefore(Len(path.points))
        /\ \A k \in DOMAIN path.points :
              \/ path.points[k].pose = path.points[k].sample
              \/ path.points[k].pose = LastConvergedBefore(k - 1)

\* A sample failed after one had converged, and a later one converged again
C23_Witness ==
    /\ path.pc = "loop"
    /\ \E k \in DOMAIN path.points :
          /\ path.points[k].pose # path.points[k].sample
          /\ path.points[k].pose # ZeroPose
          /\ path.current_guess > path.points[k].sample

\* C26: for a mechanism with at least one constraint and a defined pen
\* point, calculate_path_sympy raises no error out of the sampling loop,
\* whatever the sample count.
C26_LoopNeverRaises ==
    (/\ path.pc \notin {"idle", "setup"}
     /\ path.constraints > 0
     /\ path.pen_defined)
        => path.pc # "raised"

-----------------------------------------------------------------------------
(* Properties of the two solvers (SpecSolvers) *)

\* C24: no step of _propagate_constraints or of calculate_path_sympy adds
\* or removes a component or changes a wheel, the canvas wheel or
\* components_by_id; _propagate_constraints changes no field of a rod other
\* than start_pos and end_pos, and calculate_path_sympy changes no rod.
C24_SolversOnlyMoveRods ==
    [][/\ wheels' = wheels
       /\ canvas_wheel' = canvas_wheel
       /\ components_by_id' = components_by_id
       /\ next_component_id' = next_component_id
       /\ Len(rods') = Len(rods)
       /\ \A i \in DOMAIN rods :
             rods'[i] = [rods[i] EXCEPT !.start_pos = rods'[i].start_pos,
                                        !.end_pos = rods'[i].end_pos]
       /\ path' # path => rods' = rods]_vars

\* A _propagate_constraints call has returned and has moved a rod
C24_Witness ==
    /\ relax.pc = "returned"
    /\ InitialIntended(rods) # relax.before

-----------------------------------------------------------------------------
(* Properties of Rod.get_point_at_distance (SpecPoint) *)

\* C11: get_point_at_distance raises whenever the distance is below 0 or
\* above the rod's length; a point is returned only for a distance in
\* [0, length].
C11_OutOfRangeRaises ==
    (/\ last_op.op = "get_point"
     /\ (last_op.distance < 0 \/ last_op.distance > rods[1].length))
        => last_op.raised

-----------------------------------------------------------------------------
(* Properties of the menu simulators (SpecMenu) *)

\* The settings of CycloidMenuSimulator that reset_to_defaults restores
CycSettings(s) ==
    <<s.wheelSpeeds, s.lfoDepths, s.lfoRates, s.lfoPolarities, s.masterTime,
      s.currentMicrostepMode>>

\* C27: in CycloidMenuSimulator a short press in MENU_RESET that the pause
\* does not swallow enters the confirmation; on the confirmation, a short
\* press with YES selected returns to MENU_MAIN with every setting at its
\* default, and with NO selected returns to MENU_MAIN with every setting
\* unchanged.
C27_ResetConfirmable ==
    [][(/\ menu.sim = "cycloid"
        /\ menu.s.currentMenu = 6
        /\ ~CycPausedReturn(menu.s)
        /\ menu'.input = "short")
          => IF ~menu.s.confirmingReset
             THEN menu'.s.confirmingReset /\ menu'.s.currentMenu = 6
             ELSE /\ menu'.s.currentMenu = 0
                  /\ CycSettings(menu'.s) =
                        IF menu.s.resetChoice THEN CycSettings(CycNew)
                        ELSE CycSettings(menu.s)]_vars

\* The fields of LCDMenuSimulator16x2 but the pause flag
V2NotPause(s) == [f \in DOMAIN s \ {"system_paused"} |-> s[f]]

\* C28: in LCDMenuSimulator16x2 an encoder turn or a short press while
\* system_paused is true changes no field; system_paused changes only on a
\* long press in the MAIN menu, which changes nothing else; and whenever
\* system_paused is true the current menu is MAIN.
C28_PausedIsFrozenInMain ==
    /\ [](menu.sim = "v2" /\ menu.s.system_paused
             => menu.s.current_menu = "MAIN")
    /\ [][menu.sim = "v2" =>
            /\ (menu.s.system_paused /\ menu'.input \in {"cw", "ccw", "short"})
                  => menu'.s = menu.s
            /\ menu'.s.system_paused # menu.s.system_paused
                  => /\ menu'.input = "long"
                     /\ menu.s.current_menu = "MAIN"
                     /\ V2NotPause(menu'.s) = V2NotPause(menu.s)]_vars

\* C28 witness: a paused window took an encoder turn or a short press
C28_Witness ==
    /\ menu.sim = "v2"
    /\ menu.s.system_paused
    /\ menu.input \in {"cw", "ccw", "short"}

\* The menu a window shows is its RATIO menu
InRatioMenu(m) ==
    IF m.sim = "v2" THEN m.s.current_menu = "RATIO"
    ELSE m.sim = "cycloid" /\ m.s.currentMenu = 3

\* The wheel speeds, the confirmation flag, the choice being YES and the
\* selected preset (in the units of the speeds) of the two simulators
RatioSpeeds(m) == IF m.sim = "v2" THEN m.s.wheel_speeds ELSE m.s.wheelSpeeds

RatioConfirming(m) ==
    IF m.sim = "v2" THEN m.s.confirming_ratio_apply ELSE m.s.confirmingRatio

RatioYes(m) ==
    IF m.sim = "v2" THEN m.s.ratio_apply_choice = 1 ELSE m.s.ratioChoice

RatioPreset(m) ==
    IF m.sim = "v2"
    THEN [i \in 1..4 |-> 10 * At0(V2Ratios, m.s.selected_ratio_index)[i]]
    ELSE At0(RATIO_PRESETS, m.s.selectedRatioPreset)

\* C29: in LCDMenuSimulator16x2 and CycloidMenuSimulator, a step taken in the
\* RATIO menu changes the wheel speeds only if it is a short press on the
\* confirmation screen with YES selected, and that press writes the selected
\* preset; a step that enters the confirmation leaves the choice on NO; a
\* short press on the confirmation screen with NO selected leaves the wheel
\* speeds unchanged and stays in the RATIO menu.
C29_PresetOnlyOnYes ==
    [][menu.sim \in {"v2", "cycloid"} =>
        /\ (InRatioMenu(menu) /\ RatioSpeeds(menu') # RatioSpeeds(menu))
              => /\ menu'.input = "short"
                 /\ RatioConfirming(menu)
                 /\ RatioYes(menu)
        /\ (/\ InRatioMenu(menu)
            /\ menu'.input = "short"
            /\ RatioConfirming(menu)
            /\ RatioYes(menu))
              => RatioSpeeds(menu') = RatioPreset(menu)
        /\ (~RatioConfirming(menu) /\ RatioConfirming(menu'))
              => ~RatioYes(menu')
        /\ (/\ InRatioMenu(menu)
            /\ menu'.input = "short"
            /\ RatioConfirming(menu)
            /\ ~RatioYes(menu))
              => /\ RatioSpeeds(menu') = RatioSpeeds(menu)
                 /\ InRatioMenu(menu')]_vars

\* C29 witness: a short press on the confirmation screen wrote a preset
\* other than the speeds of a new window and left the RATIO menu
C29_Witness ==
    /\ menu.sim \in {"v2", "cycloid"}
    /\ menu.input = "short"
    /\ ~InRatioMenu(menu)
    /\ RatioSpeeds(menu) = RatioPreset(menu)
    /\ RatioSpeeds(menu) # RatioSpeeds(Window(menu.sim,
                               IF menu.sim = "v2" THEN V2New ELSE CycNew))

\* C30: in LCDMenuSimulator no button callback raises an IndexError, and in
\* the LFO menu selected_param // 2 is at most 3, the last index of
\* lfo_depths and lfo_rates.
C30_LfoParamInRange ==
    menu.sim = "lcd" =>
        /\ ~menu.raised
        /\ menu.s.current_menu = "LFO" => menu.s.selected_param \div 2 <= 3

=============================================================================
